---- MODULE Spec2Model ----
(***************************************************************************)
(* A model of the realtime normalisation engine of jamespfennell/gtfs:     *)
(* ParseRealtime (extension pass, decode and merge pass, finalisation),    *)
(* the entity decoders, and the extensions that rewrite or skip entities.  *)
(*                                                                         *)
(* Go values are represented as follows.                                   *)
(*   - a string is a tuple of one-character strings, "" is << >>;          *)
(*   - a pointer or optional proto field is a tuple of length 0 (nil) or   *)
(*     1 (set);                                                            *)
(*   - a map is a function whose DOMAIN is the set of its keys;            *)
(*   - a pointer into one of the maps of ParseRealtime is the key of the   *)
(*     map entry it points to, so an update of the entry is seen through   *)
(*     every pointer to it;                                                *)
(*   - a time.Time at midnight is the number of its day, a time.Duration   *)
(*     a number of seconds.                                                *)
(***************************************************************************)
EXTENDS Integers, Sequences, FiniteSets, TLC

\* ------------------------------------------------------------------ values

None == << >>

Some(x) == << x >>

IsSome(o) == Len(o) = 1

IsNone(o) == Len(o) = 0

Get(o) == o[1]

\* The characters the model's strings are made of, in byte order.
Chars ==
  << " ", "#", ".", "0", "1", "2", "3", "4", "5", "6", "7", "8", "9", ":",
     "A", "B", "E", "L", "M", "N", "R", "S", "_",
     "a", "b", "e", "l", "m", "n", "p", "r", "s", "t", "v" >>

Ord(c) == CHOOSE i \in 1..Len(Chars) : Chars[i] = c

Digits == { "0", "1", "2", "3", "4", "5", "6", "7", "8", "9" }

Letters == { Chars[i] : i \in 1..Len(Chars) } \ (Digits \cup { " ", "#", ".", ":", "_" })

IsDigit(c) == c \in Digits

IsAlnum(c) == c \in Digits \cup Letters

DigitVal(c) == Ord(c) - Ord("0")

\* Go's s1 < s2 on strings: bytewise lexicographic.
StrLess(s1, s2) ==
  \E k \in 1..(Len(s1) + 1) :
    /\ \A j \in 1..(k - 1) : j <= Len(s2) /\ s1[j] = s2[j]
    /\ k <= Len(s2)
    /\ (k = Len(s1) + 1 \/ Ord(s1[k]) < Ord(s2[k]))

\* strconv.Atoi on a string of decimal digits.
RECURSIVE Atoi(_)
Atoi(s) ==
  IF Len(s) = 0 THEN 0
  ELSE 10 * Atoi(SubSeq(s, 1, Len(s) - 1)) + DigitVal(s[Len(s)])

GetString(o) == IF IsSome(o) THEN Get(o) ELSE << >>

GetNumber(o) == IF IsSome(o) THEN Get(o) ELSE 0

GetBool(o) == IF IsSome(o) THEN Get(o) ELSE FALSE

\* ------------------------------------------------------------------- enums

DirectionID_Unspecified == 0

DirectionID_True == 1

DirectionID_False == 2

RouteType_Unknown == 10000

parseDirectionID_GTFSRealtime(raw) ==
  IF IsNone(raw) THEN DirectionID_Unspecified
  ELSE IF Get(raw) = 0 THEN DirectionID_False
  ELSE DirectionID_True

parseRouteType_GTFSStatic(n) ==
  IF n \in { 0, 1, 2, 3, 4, 5, 6, 7, 11, 12 } THEN n ELSE RouteType_Unknown

parseRouteType_GTFSRealtime(raw) ==
  IF IsNone(raw) THEN RouteType_Unknown
  ELSE parseRouteType_GTFSStatic(Get(raw))

\* -------------------------------------------------------- trip descriptors

\* time.Date(y, m, d, 0, 0, 0, 0, loc) as a day number: the month is
\* normalised into the year, the days are then added.
IsLeap(y) == y % 4 = 0 /\ (y % 100 # 0 \/ y % 400 = 0)

DaysBeforeYear(y) == 365 * y + ((y + 3) \div 4) - ((y + 99) \div 100) + ((y + 399) \div 400)

DaysBeforeMonth(m0, leap) ==
  << 0, 31, 59, 90, 120, 151, 181, 212, 243, 273, 304, 334 >>[m0 + 1]
    + (IF leap /\ m0 >= 2 THEN 1 ELSE 0)

\* The day number of day d of month m0 (from 0) of year y.
DayNumber(y, m0, d) == DaysBeforeYear(y) + DaysBeforeMonth(m0, IsLeap(y)) + (d - 1)

Date(y, m, d) == DayNumber(y + ((m - 1) \div 12), (m - 1) % 12, d)

\* time.Time{}: January 1 of year 1.
ZeroTime == Date(1, 1, 1)

\* startTimeRegex, ^([0-9]{2}):([0-9]{2}):([0-9]{2})$
startTimeRegex(s) ==
  /\ Len(s) = 8
  /\ \A i \in { 1, 2, 4, 5, 7, 8 } : IsDigit(s[i])
  /\ s[3] = ":" /\ s[6] = ":"

\* startDateRegex, ^([0-9]{4})([0-9]{2})([0-9]{2})$
startDateRegex(s) == Len(s) = 8 /\ \A i \in 1..8 : IsDigit(s[i])

\* time.Duration((h*60+m)*60+s) * time.Second
Seconds(h, m, s) == (h * 60 + m) * 60 + s

parseStartTime(startTime) ==
  IF IsNone(startTime) THEN [has |-> FALSE, val |-> 0]
  ELSE IF ~startTimeRegex(Get(startTime)) THEN [has |-> FALSE, val |-> 0]
  ELSE [ has |-> TRUE,
         val |-> Seconds(Atoi(SubSeq(Get(startTime), 1, 2)),
                         Atoi(SubSeq(Get(startTime), 4, 5)),
                         Atoi(SubSeq(Get(startTime), 7, 8))) ]

parseStartDate(startDate) ==
  IF IsNone(startDate) THEN [has |-> FALSE, val |-> ZeroTime]
  ELSE IF ~startDateRegex(Get(startDate)) THEN [has |-> FALSE, val |-> ZeroTime]
  ELSE [ has |-> TRUE,
         val |-> Date(Atoi(SubSeq(Get(startDate), 1, 4)),
                      Atoi(SubSeq(Get(startDate), 5, 6)),
                      Atoi(SubSeq(Get(startDate), 7, 8))) ]

\* parseTripDescriptor, given the parsed start time and start date.
TripIDOf(tripDesc, startTime, startDate) ==
  [ ID |-> GetString(tripDesc.TripId),
    RouteID |-> GetString(tripDesc.RouteId),
    DirectionID |-> parseDirectionID_GTFSRealtime(tripDesc.DirectionId),
    HasStartTime |-> startTime.has,
    StartTime |-> startTime.val,
    HasStartDate |-> startDate.has,
    StartDate |-> startDate.val,
    ScheduleRelationship |-> GetNumber(tripDesc.ScheduleRelationship) ]

parseTripDescriptor(tripDesc) ==
  TripIDOf(tripDesc, parseStartTime(tripDesc.StartTime), parseStartDate(tripDesc.StartDate))

parseOptionalTripDescriptor(tripDesc) ==
  IF IsNone(tripDesc) THEN None ELSE Some(parseTripDescriptor(Get(tripDesc)))

\* TripID.Less comparing the start times the wrong way round.
Less_StartTimeReversed(t1, t2) ==
  IF t1.ID # t2.ID THEN StrLess(t1.ID, t2.ID)
  ELSE IF t1.RouteID # t2.RouteID THEN StrLess(t1.RouteID, t2.RouteID)
  ELSE IF t1.DirectionID # t2.DirectionID THEN t1.DirectionID < t2.DirectionID
  ELSE IF t1.HasStartTime # t2.HasStartTime THEN t1.HasStartTime /\ ~t2.HasStartTime
  ELSE IF t1.HasStartTime /\ t1.StartTime # t2.StartTime THEN t1.StartTime > t2.StartTime
  ELSE IF t1.HasStartDate # t2.HasStartDate THEN ~t1.HasStartDate /\ t2.HasStartDate
  ELSE IF t1.HasStartDate /\ t1.StartDate # t2.StartDate THEN t1.StartDate < t2.StartDate
  ELSE t1.ScheduleRelationship < t2.ScheduleRelationship

\* TripID.Less with <= on the schedule relationships.
Less_OrEqual(t1, t2) ==
  IF t1.ID # t2.ID THEN StrLess(t1.ID, t2.ID)
  ELSE IF t1.RouteID # t2.RouteID THEN StrLess(t1.RouteID, t2.RouteID)
  ELSE IF t1.DirectionID # t2.DirectionID THEN t1.DirectionID < t2.DirectionID
  ELSE IF t1.HasStartTime # t2.HasStartTime THEN ~t1.HasStartTime /\ t2.HasStartTime
  ELSE IF t1.HasStartTime /\ t1.StartTime # t2.StartTime THEN t1.StartTime < t2.StartTime
  ELSE IF t1.HasStartDate # t2.HasStartDate THEN ~t1.HasStartDate /\ t2.HasStartDate
  ELSE IF t1.HasStartDate /\ t1.StartDate # t2.StartDate THEN t1.StartDate < t2.StartDate
  ELSE t1.ScheduleRelationship <= t2.ScheduleRelationship

\* TripID.Less
Less(t1, t2) ==
  IF t1.ID # t2.ID THEN StrLess(t1.ID, t2.ID)
  ELSE IF t1.RouteID # t2.RouteID THEN StrLess(t1.RouteID, t2.RouteID)
  ELSE IF t1.DirectionID # t2.DirectionID THEN t1.DirectionID < t2.DirectionID
  ELSE IF t1.HasStartTime # t2.HasStartTime THEN ~t1.HasStartTime /\ t2.HasStartTime
  ELSE IF t1.HasStartTime /\ t1.StartTime # t2.StartTime THEN t1.StartTime < t2.StartTime
  ELSE IF t1.HasStartDate # t2.HasStartDate THEN ~t1.HasStartDate /\ t2.HasStartDate
  ELSE IF t1.HasStartDate /\ t1.StartDate # t2.StartDate THEN t1.StartDate < t2.StartDate
  ELSE t1.ScheduleRelationship < t2.ScheduleRelationship

tripIDUniquelyIdentifiesTrip(tripID) ==
  /\ IsSome(tripID)
  /\ \/ Get(tripID).ID # << >>
     \/ /\ Get(tripID).RouteID # << >>
        /\ Get(tripID).DirectionID # DirectionID_Unspecified
        /\ Get(tripID).HasStartTime
        /\ Get(tripID).HasStartDate

\* ----------------------------------------------------- vehicle descriptors

ZeroVehicleID == [ID |-> << >>, Label |-> << >>, LicensePlate |-> << >>]

\* parseVehicleDescriptor: nil for the zero VehicleID.
NonZeroVehicleID(vehicleID) == IF vehicleID = ZeroVehicleID THEN None ELSE Some(vehicleID)

\* parseVehicleDescriptor without the comparison with the zero VehicleID.
parseVehicleDescriptor_NoZeroCheck(vehicleDesc) ==
  IF IsNone(vehicleDesc) THEN None
  ELSE Some([ ID |-> GetString(Get(vehicleDesc).Id),
              Label |-> GetString(Get(vehicleDesc).Label),
              LicensePlate |-> GetString(Get(vehicleDesc).LicensePlate) ])

parseVehicleDescriptor(vehicleDesc) ==
  IF IsNone(vehicleDesc) THEN None
  ELSE NonZeroVehicleID([ ID |-> GetString(Get(vehicleDesc).Id),
                          Label |-> GetString(Get(vehicleDesc).Label),
                          LicensePlate |-> GetString(Get(vehicleDesc).LicensePlate) ])

\* ------------------------------------------------------------ maps, slices

EmptyMap == [x \in {} |-> x]

MapPut(m, k, v) == [x \in DOMAIN m \cup { k } |-> IF x = k THEN v ELSE m[x]]

Range(s) == { s[i] : i \in DOMAIN s }

\* The orders in which a range loop may visit the keys of a map.
Orders(keys) ==
  { o \in [1..Cardinality(keys) -> keys] : \A a, b \in DOMAIN o : a # b => o[a] # o[b] }

\* ---------------------------------------------------------------- entities

ZeroTripID ==
  [ ID |-> << >>, RouteID |-> << >>, DirectionID |-> DirectionID_Unspecified,
    HasStartTime |-> FALSE, StartTime |-> 0, HasStartDate |-> FALSE,
    StartDate |-> ZeroTime, ScheduleRelationship |-> 0 ]

\* &Trip{}
ZeroTrip ==
  [ ID |-> ZeroTripID, StopTimeUpdates |-> << >>, Vehicle |-> None,
    IsEntityInMessage |-> FALSE ]

\* &Vehicle{}
ZeroVehicle ==
  [ ID |-> None, Trip |-> None, Position |-> None, CurrentStopSequence |-> None,
    StopID |-> None, CurrentStatus |-> None, Timestamp |-> None,
    CongestionLevel |-> 0, OccupancyStatus |-> None, OccupancyPercentage |-> None,
    IsEntityInMessage |-> FALSE ]

\* Pointers: to the vehicle a loop iteration decoded, to an entry of
\* vehiclesByID, to an entry of tripsById.
LocalVehiclePtr == [heap |-> "vehicle", key |-> ZeroVehicleID]

VehiclePtr(vehicleID) == [heap |-> "vehiclesByID", key |-> vehicleID]

TripPtr(tripID) == [heap |-> "tripsById", key |-> tripID]

\* Extension.GetTrack: the NYCT trips extension reads the track of the NYCT
\* stop time update, the other extensions embed NoExtensionImpl.
GetTrack(extension, stopTimeUpdate) ==
  IF extension.name # "nycttrips" THEN None
  ELSE IF IsNone(stopTimeUpdate.NyctStopTimeUpdate) THEN None
  ELSE IF IsSome(Get(stopTimeUpdate.NyctStopTimeUpdate).ActualTrack)
       THEN Get(stopTimeUpdate.NyctStopTimeUpdate).ActualTrack
  ELSE Get(stopTimeUpdate.NyctStopTimeUpdate).ScheduledTrack

convertStopTimeEvent(stopTimeEvent) ==
  IF IsNone(stopTimeEvent) THEN None
  ELSE Some([ Time |-> Get(stopTimeEvent).Time,
              Delay |-> Get(stopTimeEvent).Delay,
              Uncertainty |-> Get(stopTimeEvent).Uncertainty ])

convertStopTimeUpdate(extension, stopTimeUpdate) ==
  [ StopSequence |-> stopTimeUpdate.StopSequence,
    StopID |-> stopTimeUpdate.StopId,
    Arrival |-> convertStopTimeEvent(stopTimeUpdate.Arrival),
    Departure |-> convertStopTimeEvent(stopTimeUpdate.Departure),
    NyctTrack |-> GetTrack(extension, stopTimeUpdate),
    ScheduleRelationship |-> GetNumber(stopTimeUpdate.ScheduleRelationship) ]

\* What one entity decodes to: trip, vehicle and alert are pointers.
Decoded(trip, vehicle, alert, alertTrips, ok) ==
  [trip |-> trip, vehicle |-> vehicle, alert |-> alert, alertTrips |-> alertTrips, ok |-> ok]

parseTripUpdate(tripUpdate, extension) ==
  IF IsNone(tripUpdate.Trip) THEN Decoded(None, None, None, << >>, FALSE)
  ELSE Decoded(Some([ ID |-> parseTripDescriptor(Get(tripUpdate.Trip)),
                      StopTimeUpdates |->
                        [k \in DOMAIN tripUpdate.StopTimeUpdate |->
                           convertStopTimeUpdate(extension, tripUpdate.StopTimeUpdate[k])],
                      Vehicle |-> None,
                      IsEntityInMessage |-> TRUE ]),
               IF IsNone(tripUpdate.Vehicle) THEN None
               ELSE Some([ZeroVehicle EXCEPT !.ID = parseVehicleDescriptor(tripUpdate.Vehicle),
                                             !.IsEntityInMessage = FALSE]),
               None, << >>, TRUE)

convertVehiclePosition(vehiclePosition) == vehiclePosition.Position

parseVehicle(vehiclePosition) ==
  Decoded(IF IsNone(vehiclePosition.Trip) THEN None
          ELSE Some([ZeroTrip EXCEPT !.ID = parseTripDescriptor(Get(vehiclePosition.Trip))]),
          Some([ ID |-> parseVehicleDescriptor(vehiclePosition.Vehicle),
                 Trip |-> None,
                 Position |-> convertVehiclePosition(vehiclePosition),
                 CurrentStopSequence |-> vehiclePosition.CurrentStopSequence,
                 StopID |-> vehiclePosition.StopId,
                 CurrentStatus |-> vehiclePosition.CurrentStatus,
                 Timestamp |-> vehiclePosition.Timestamp,
                 CongestionLevel |-> GetNumber(vehiclePosition.CongestionLevel),
                 OccupancyStatus |-> vehiclePosition.OccupancyStatus,
                 OccupancyPercentage |-> vehiclePosition.OccupancyPercentage,
                 IsEntityInMessage |-> TRUE ]),
          None, << >>, TRUE)

\* mergeTrip without the assignment of the ID before the early return.
mergeTrip_NoID(t, new) == IF ~new.IsEntityInMessage THEN t ELSE new

\* mergeTrip without the early return for a placeholder.
mergeTrip_Overwrite(t, new) == new

mergeTrip(t, new) == IF ~new.IsEntityInMessage THEN [t EXCEPT !.ID = new.ID] ELSE new

\* mergeVehicle without the early return for a placeholder.
mergeVehicle_Always(v, new) == new

mergeVehicle(v, new) == IF ~new.IsEntityInMessage THEN [v EXCEPT !.ID = new.ID] ELSE new

\* ------------------------------------------------------------------ alerts

\* alertInformedEntityInformsAtLeastOneEntity with one more case: informing a
\* direction is taken for informing something.
alertInformedEntityInformsAtLeastOneEntity_Direction(alertInformedEntity) ==
  \/ IsSome(alertInformedEntity.AgencyID)
  \/ IsSome(alertInformedEntity.RouteID)
  \/ alertInformedEntity.RouteType # RouteType_Unknown
  \/ tripIDUniquelyIdentifiesTrip(alertInformedEntity.TripID)
  \/ IsSome(alertInformedEntity.StopID)
  \/ alertInformedEntity.DirectionID # DirectionID_Unspecified

alertInformedEntityInformsAtLeastOneEntity(alertInformedEntity) ==
  \/ IsSome(alertInformedEntity.AgencyID)
  \/ IsSome(alertInformedEntity.RouteID)
  \/ alertInformedEntity.RouteType # RouteType_Unknown
  \/ tripIDUniquelyIdentifiesTrip(alertInformedEntity.TripID)
  \/ IsSome(alertInformedEntity.StopID)

buildAlertText(ts) ==
  IF IsNone(ts) THEN << >>
  ELSE [k \in DOMAIN Get(ts).Translation |->
          [ Text |-> GetString(Get(ts).Translation[k].Text),
            Language |-> GetString(Get(ts).Translation[k].Language) ]]

\* The first loop of parseAlert without the recording of the routes that are
\* informed directly.
alertInformedRoutes_None(entities) == {}

\* parseAlert, first loop: the routes the informed entities name directly.
alertInformedRoutes(entities) ==
  { Get(entities[k].RouteId) : k \in { j \in DOMAIN entities : IsSome(entities[j].RouteId) } }

\* The first loop of parseAlert with a specified direction replacing the
\* directions recorded for the route instead of joining them.
alertAddRouteFromTripID_Replace(before, tripIDOrNil) ==
  IF IsSome(tripIDOrNil) /\ ~tripIDUniquelyIdentifiesTrip(tripIDOrNil)
     /\ Get(tripIDOrNil).RouteID # << >>
  THEN IF Get(tripIDOrNil).DirectionID = DirectionID_Unspecified
       THEN MapPut(before, Get(tripIDOrNil).RouteID, { DirectionID_False, DirectionID_True })
       ELSE MapPut(before, Get(tripIDOrNil).RouteID, { Get(tripIDOrNil).DirectionID })
  ELSE before

\* parseAlert, first loop: informedRoutesFromTripIDs after one more informed
\* entity whose trip descriptor decodes to tripIDOrNil.
alertAddRouteFromTripID(before, tripIDOrNil) ==
  IF IsSome(tripIDOrNil) /\ ~tripIDUniquelyIdentifiesTrip(tripIDOrNil)
     /\ Get(tripIDOrNil).RouteID # << >>
  THEN IF Get(tripIDOrNil).DirectionID = DirectionID_Unspecified
       THEN MapPut(before, Get(tripIDOrNil).RouteID, { DirectionID_False, DirectionID_True })
       ELSE MapPut(before, Get(tripIDOrNil).RouteID,
                   (IF Get(tripIDOrNil).RouteID \in DOMAIN before
                    THEN before[Get(tripIDOrNil).RouteID] ELSE {})
                     \cup { Get(tripIDOrNil).DirectionID })
  ELSE before

\* parseAlert, first loop: informedRoutesFromTripIDs after the first n
\* informed entities.
RECURSIVE alertInformedRoutesFromTripIDs(_, _)
alertInformedRoutesFromTripIDs(entities, n) ==
  IF n = 0 THEN EmptyMap
  ELSE alertAddRouteFromTripID(alertInformedRoutesFromTripIDs(entities, n - 1),
                               parseOptionalTripDescriptor(entities[n].Trip))

\* parseAlert, first loop: the informed entity built from one entity selector.
alertInformedEntity(entity) ==
  [ AgencyID |-> entity.AgencyId,
    RouteID |-> entity.RouteId,
    RouteType |-> parseRouteType_GTFSRealtime(entity.RouteType),
    DirectionID |-> parseDirectionID_GTFSRealtime(entity.DirectionId),
    TripID |-> parseOptionalTripDescriptor(entity.Trip),
    StopID |-> entity.StopId ]

\* The first loop of parseAlert without the clearing of a trip ID that does
\* not identify a trip.
alertKeepEntity_NoClear(before, informedEntity) ==
  IF ~alertInformedEntityInformsAtLeastOneEntity(informedEntity) THEN before
  ELSE Append(before, informedEntity)

\* parseAlert, first loop: the informed entities after one more of them.
alertKeepEntity(before, informedEntity) ==
  IF ~alertInformedEntityInformsAtLeastOneEntity(informedEntity) THEN before
  ELSE IF tripIDUniquelyIdentifiesTrip(informedEntity.TripID)
       THEN Append(before, informedEntity)
  ELSE Append(before, [informedEntity EXCEPT !.TripID = None])

\* parseAlert, first loop: the informed entities kept, with trip IDs that do
\* not identify a trip cleared.
RECURSIVE alertKeptEntities(_, _)
alertKeptEntities(entities, n) ==
  IF n = 0 THEN << >>
  ELSE alertKeepEntity(alertKeptEntities(entities, n - 1), alertInformedEntity(entities[n]))

\* The first loop of parseAlert with the implied trips marked as entities of
\* the message.
alertAddTrip_InMessage(before, informedEntity) ==
  IF /\ alertInformedEntityInformsAtLeastOneEntity(informedEntity)
     /\ tripIDUniquelyIdentifiesTrip(informedEntity.TripID)
  THEN Append(before, [ZeroTrip EXCEPT !.ID = Get(informedEntity.TripID),
                                       !.IsEntityInMessage = TRUE])
  ELSE before

\* parseAlert, first loop: the implied trips after one more informed entity.
alertAddTrip(before, informedEntity) ==
  IF /\ alertInformedEntityInformsAtLeastOneEntity(informedEntity)
     /\ tripIDUniquelyIdentifiesTrip(informedEntity.TripID)
  THEN Append(before, [ZeroTrip EXCEPT !.ID = Get(informedEntity.TripID)])
  ELSE before

\* parseAlert, first loop: the trips the informed entities imply.
RECURSIVE alertTrips(_, _)
alertTrips(entities, n) ==
  IF n = 0 THEN << >>
  ELSE alertAddTrip(alertTrips(entities, n - 1), alertInformedEntity(entities[n]))

\* parseAlert, second loop: the informed entity appended for one route.
alertRouteEntity(routeID, directions) ==
  [ AgencyID |-> None, RouteID |-> Some(routeID),
    RouteType |-> RouteType_Unknown,
    DirectionID |-> IF DirectionID_False \in directions /\ DirectionID_True \in directions
                    THEN DirectionID_Unspecified
                    ELSE IF DirectionID_False \in directions THEN DirectionID_False
                    ELSE DirectionID_True,
    TripID |-> None, StopID |-> None ]

\* parseAlert, second loop: the route-level informed entities appended, the
\* routes of informedRoutesFromTripIDs being visited in the given order.
RECURSIVE alertRouteEntities(_, _, _, _)
alertRouteEntities(order, n, fromTripIDs, informedRoutes) ==
  IF n = 0 THEN << >>
  ELSE IF order[n] \in informedRoutes
       THEN alertRouteEntities(order, n - 1, fromTripIDs, informedRoutes)
  ELSE Append(alertRouteEntities(order, n - 1, fromTripIDs, informedRoutes),
              alertRouteEntity(order[n], fromTripIDs[order[n]]))

\* The orders in which the second loop of parseAlert may visit the routes.
alertRouteOrders(alert) ==
  Orders(DOMAIN alertInformedRoutesFromTripIDs(alert.InformedEntity, Len(alert.InformedEntity)))

parseAlert(ID, alert, order) ==
  LET entities == alert.InformedEntity
      gtfsAlert ==
        [ ID |-> ID,
          ActivePeriods |->
            [k \in DOMAIN alert.ActivePeriod |->
               [StartsAt |-> alert.ActivePeriod[k].Start, EndsAt |-> alert.ActivePeriod[k].End]],
          Cause |-> IF IsSome(alert.Cause) THEN Get(alert.Cause) ELSE "UNKNOWN_CAUSE",
          Effect |-> IF IsSome(alert.Effect) THEN Get(alert.Effect) ELSE "UNKNOWN_EFFECT",
          InformedEntities |->
            alertKeptEntities(entities, Len(entities))
              \o alertRouteEntities(order, Len(order),
                                    alertInformedRoutesFromTripIDs(entities, Len(entities)),
                                    alertInformedRoutes(entities)),
          Header |-> buildAlertText(alert.HeaderText),
          Description |-> buildAlertText(alert.DescriptionText),
          URL |-> buildAlertText(alert.Url) ]
  IN  Decoded(None, None, Some(gtfsAlert), alertTrips(entities, Len(entities)), TRUE)

\* -------------------------------------------------------------- extensions

\* An extension and its options. The fields of the NYCT trips extension are
\* FilterStaleUnassignedTrips and PreserveMTrainPlatformsInBushwick, the
\* others are those of the NYCT alerts extension.
Extension(name) ==
  [ name |-> name,
    FilterStaleUnassignedTrips |-> FALSE,
    PreserveMTrainPlatformsInBushwick |-> FALSE,
    elevatorAlertsDeduplicationPolicy |-> "NoDeduplication",
    elevatorAlertsInformUsingStationIDs |-> FALSE,
    skipTimetabledNoServiceAlerts |-> FALSE,
    addNyctMetadata |-> FALSE ]

NoExtension == Extension("none")

\* strconv.Itoa of a natural number.
RECURSIVE Itoa(_)
Itoa(n) ==
  IF n < 10 THEN << Chars[Ord("0") + n] >>
  ELSE Append(Itoa(n \div 10), Chars[Ord("0") + (n % 10)])

\* fmt.Sprintf("%02d", n)
Sprintf02d(n) == IF n < 10 THEN << "0" >> \o Itoa(n) ELSE Itoa(n)

\* TripIDRegex, ^([0-9]{6})_([[:alnum:]]{1,2})..([SN])([[:alnum:]]*)$
TripIDRegex(s) ==
  /\ Len(s) >= 7
  /\ \A j \in 1..6 : IsDigit(s[j])
  /\ s[7] = "_"
  /\ \E k \in { 1, 2 } :
       /\ Len(s) >= 7 + k + 3
       /\ \A j \in 8..(7 + k) : IsAlnum(s[j])
       /\ s[7 + k + 3] \in { "S", "N" }
       /\ \A j \in (7 + k + 4)..Len(s) : IsAlnum(s[j])

\* updateTripOrVehicle: fmt.Sprintf("%02d:%02d:%02d", ...) of the start time.
nyctStartTime(secondsAfterMidnight) ==
  Sprintf02d((secondsAfterMidnight \div 60) \div 60) \o << ":" >>
    \o Sprintf02d((secondsAfterMidnight \div 60) % 60) \o << ":" >>
    \o Sprintf02d(secondsAfterMidnight % 60)

\* updateTripOrVehicle: the trip descriptor with its direction ID and, when
\* the trip ID matches TripIDRegex, its start time rewritten.
nyctTripDescriptor(tripDesc, nyctTripDesc) ==
  [tripDesc EXCEPT
     !.DirectionId = IF IsNone(nyctTripDesc.Direction) \/ nyctTripDesc.Direction = Some("NORTH")
                     THEN Some(0) ELSE Some(1),
     !.StartTime = IF TripIDRegex(GetString(tripDesc.TripId))
                   THEN Some(nyctStartTime((Atoi(SubSeq(GetString(tripDesc.TripId), 1, 6)) * 6)
                                             \div 10))
                   ELSE tripDesc.StartTime]

\* setVehicleDescriptor, called when the NYCT trip descriptor is assigned.
setVehicleDescriptor(entity, nyctTripDesc) ==
  IF GetBool(nyctTripDesc.IsAssigned)
  THEN Some([ Id |-> Some(GetString(nyctTripDesc.TrainId)),
              Label |-> None, LicensePlate |-> None ])
  ELSE entity.Vehicle

\* nycttrips: updateTripOrVehicle on the trip descriptor and the vehicle
\* descriptor of a trip update or of a vehicle position.
updateTripOrVehicle(entity) ==
  IF IsNone(entity.Trip) \/ IsNone(Get(entity.Trip).NyctTripDescriptor)
  THEN [entity |-> entity, isAssigned |-> FALSE]
  ELSE [ entity |->
           [entity EXCEPT
              !.Trip = Some(nyctTripDescriptor(Get(entity.Trip),
                                               Get(Get(entity.Trip).NyctTripDescriptor))),
              !.Vehicle = setVehicleDescriptor(entity, Get(Get(entity.Trip).NyctTripDescriptor))],
         isAssigned |-> GetBool(Get(Get(entity.Trip).NyctTripDescriptor).IsAssigned) ]

buggyStationIDs ==
  { << "M", "1", "1" >>, << "M", "1", "2" >>, << "M", "1", "3" >>,
    << "M", "1", "4" >>, << "M", "1", "6" >>, << "M", "1", "8" >> }

\* fixMTrainPlatformsInBushwick on one stop ID.
fixMTrainStopID(stopID) ==
  IF Len(stopID) # 4 THEN stopID
  ELSE IF SubSeq(stopID, 1, 3) \notin buggyStationIDs THEN stopID
  ELSE SubSeq(stopID, 1, 3) \o (IF stopID[4] = "N" THEN << "S" >> ELSE << "N" >>)

fixMTrainPlatformsInBushwick(trip) ==
  IF IsNone(trip.Trip) \/ GetString(Get(trip.Trip).RouteId) # << "M" >> THEN trip
  ELSE [trip EXCEPT !.StopTimeUpdate =
          [k \in DOMAIN trip.StopTimeUpdate |->
             IF fixMTrainStopID(GetString(trip.StopTimeUpdate[k].StopId))
                  = GetString(trip.StopTimeUpdate[k].StopId)
             THEN trip.StopTimeUpdate[k]
             ELSE [trip.StopTimeUpdate[k] EXCEPT !.StopId =
                     Some(fixMTrainStopID(GetString(trip.StopTimeUpdate[k].StopId)))]]]

\* GetDeparture().GetTime() and GetArrival().GetTime() of a stop time update.
GetEventTime(stopTimeEvent) ==
  IF IsNone(stopTimeEvent) THEN 0 ELSE GetNumber(Get(stopTimeEvent).Time)

\* isStaleUnassignedTrip: the time of the first stop time update.
firstTimeOf(stopTime) ==
  IF GetEventTime(stopTime.Departure) = 0 THEN GetEventTime(stopTime.Arrival)
  ELSE GetEventTime(stopTime.Departure)

\* isStaleUnassignedTrip with a first time equal to the time of the message
\* counted as stale.
isStaleUnassignedTrip_NotStrict(isAssigned, stopTimes, feedCreatedAt) ==
  IF isAssigned THEN FALSE
  ELSE IF Len(stopTimes) = 0 THEN TRUE
  ELSE IF firstTimeOf(stopTimes[1]) = 0 THEN TRUE
  ELSE firstTimeOf(stopTimes[1]) <= feedCreatedAt

isStaleUnassignedTrip(isAssigned, stopTimes, feedCreatedAt) ==
  IF isAssigned THEN FALSE
  ELSE IF Len(stopTimes) = 0 THEN TRUE
  ELSE IF firstTimeOf(stopTimes[1]) = 0 THEN TRUE
  ELSE firstTimeOf(stopTimes[1]) < feedCreatedAt

\* Extension.UpdateTrip: the rewritten trip update and the skip signal.
\* Extension.UpdateTrip of nycttrips, after updateTripOrVehicle.
UpdateTripResult(extension, updated, feedCreatedAt) ==
  [ trip |-> updated.entity,
    ShouldSkip |->
      /\ IsSome(updated.entity.Trip)
      /\ IsSome(Get(updated.entity.Trip).NyctTripDescriptor)
      /\ extension.FilterStaleUnassignedTrips
      /\ isStaleUnassignedTrip(updated.isAssigned, updated.entity.StopTimeUpdate,
                               feedCreatedAt) ]

\* strings.Replace(s, " ", "_", -1)
ReplaceSpaces(s) == [k \in DOMAIN s |-> IF s[k] = " " THEN "_" ELSE s[k]]

\* nyctbustrips: fmt.Sprintf("%s_%s_%d", tripId, vehicleId, direction) with the
\* spaces replaced.
compositeTripId(trip) ==
  ReplaceSpaces(
    (IF IsSome(trip.Trip) THEN GetString(Get(trip.Trip).TripId) ELSE << >>) \o << "_" >>
      \o (IF IsSome(trip.Vehicle) THEN GetString(Get(trip.Vehicle).Id) ELSE << >>) \o << "_" >>
      \o Itoa(IF IsSome(trip.Trip) THEN GetNumber(Get(trip.Trip).DirectionId) ELSE 0))

\* nyctbustrips: UpdateTrip stores the composite ID through trip.Trip, a nil
\* pointer when the trip update has no trip descriptor.
UpdateTripPanics(extension, trip) == extension.name = "nyctbustrips" /\ IsNone(trip.Trip)

\* Extension.UpdateTrip of nyctbustrips on a trip update with a trip descriptor.
UpdateBusTrip(trip) ==
  [ trip |-> [trip EXCEPT !.Trip = Some([Get(trip.Trip) EXCEPT
                                          !.TripId = Some(compositeTripId(trip))])],
    ShouldSkip |-> FALSE ]

UpdateTrip(extension, trip, feedCreatedAt) ==
  IF extension.name = "nyctbustrips" THEN UpdateBusTrip(trip)
  ELSE IF extension.name # "nycttrips" THEN [trip |-> trip, ShouldSkip |-> FALSE]
  ELSE UpdateTripResult(extension,
                        updateTripOrVehicle(IF ~extension.PreserveMTrainPlatformsInBushwick
                                            THEN fixMTrainPlatformsInBushwick(trip) ELSE trip),
                        feedCreatedAt)

\* Extension.UpdateVehicle: the rewritten vehicle position.
UpdateVehicle(extension, vehicle) ==
  IF extension.name # "nycttrips" THEN vehicle ELSE updateTripOrVehicle(vehicle).entity

\* strings.HasPrefix
HasPrefix(s, prefix) == Len(s) >= Len(prefix) /\ SubSeq(s, 1, Len(prefix)) = prefix

\* strings.LastIndex(s, ":") counted from 1, 0 when there is none.
LastIndexColon(s) ==
  IF \E j \in DOMAIN s : s[j] = ":"
  THEN CHOOSE j \in DOMAIN s : s[j] = ":" /\ \A k \in (j + 1)..Len(s) : s[k] # ":"
  ELSE 0

\* elevatorAlertIDRegex, ([[:alnum:]]{3}?)([SN]?)#EL(.*), matched at position p
\* with a direction of n characters.
elevatorAlertIDRegexAt(s, p, n) ==
  /\ p + 2 + n + 3 <= Len(s)
  /\ \A j \in p..(p + 2) : IsAlnum(s[j])
  /\ n = 1 => s[p + 3] \in { "S", "N" }
  /\ SubSeq(s, p + 3 + n, p + 5 + n) = << "#", "E", "L" >>

\* elevatorAlertIDRegex.FindStringSubmatch: the submatches of the match at
\* position p, the direction being matched when it can be.
elevatorAlertIDSubmatch(s, p, n) ==
  << SubSeq(s, p, p + 2), SubSeq(s, p + 3, p + 2 + n), SubSeq(s, p + 6 + n, Len(s)) >>

\* elevatorAlertIDRegex.FindStringSubmatch: the leftmost of the matches.
elevatorAlertIDLeftmost(s, starts) ==
  IF starts = {} THEN None
  ELSE Some(elevatorAlertIDSubmatch(
              s, CHOOSE q \in starts : \A r \in starts : q <= r,
              IF elevatorAlertIDRegexAt(s, CHOOSE q \in starts : \A r \in starts : q <= r, 1)
              THEN 1 ELSE 0))

\* elevatorAlertIDRegex.FindStringSubmatch: the leftmost match, nil if none.
elevatorAlertIDRegex(s) ==
  elevatorAlertIDLeftmost(
    s, { p \in DOMAIN s : \E n \in { 0, 1 } : elevatorAlertIDRegexAt(s, p, n) })

\* The MercuryEntitySelector priorities, by number, that mark timetabled
\* absences of service.
timetabledNoServicePriorities == { 2, 3, 4 }

\* priortyToEffect, indexed by the number of the priority.
priortyToEffect ==
  << "NO_SERVICE", "REDUCED_SERVICE", "REDUCED_SERVICE", "REDUCED_SERVICE",
     "MODIFIED_SERVICE", "MODIFIED_SERVICE", "MODIFIED_SERVICE", "MODIFIED_SERVICE",
     "ADDITIONAL_SERVICE", "MODIFIED_SERVICE", "MODIFIED_SERVICE", "MODIFIED_SERVICE",
     "MODIFIED_SERVICE", "MODIFIED_SERVICE", "REDUCED_SERVICE", "MODIFIED_SERVICE",
     "MODIFIED_SERVICE", "MODIFIED_SERVICE", "SIGNIFICANT_DELAYS", "SIGNIFICANT_DELAYS",
     "MODIFIED_SERVICE", "MODIFIED_SERVICE", "MODIFIED_SERVICE", "MODIFIED_SERVICE",
     "REDUCED_SERVICE", "MODIFIED_SERVICE", "SIGNIFICANT_DELAYS", "MODIFIED_SERVICE",
     "MODIFIED_SERVICE", "SIGNIFICANT_DELAYS", "MODIFIED_SERVICE", "MODIFIED_SERVICE",
     "MODIFIED_SERVICE", "MODIFIED_SERVICE", "MODIFIED_SERVICE", "MODIFIED_SERVICE",
     "REDUCED_SERVICE", "MODIFIED_SERVICE", "NO_SERVICE", "NO_SERVICE" >>

\* strconv.Atoi on the priority, nil when it fails.
parsePriority(priorityStr) ==
  IF Len(priorityStr) = 0 \/ \E j \in DOMAIN priorityStr : ~IsDigit(priorityStr[j])
  THEN None
  ELSE Some(Atoi(priorityStr))

\* getPriorityFromInformedEntity on the sort order: the number after the last
\* colon, nil when there is no colon or the number does not parse.
getPriorityFromSortOrder(sortOrder, i) ==
  IF i = 0 THEN None ELSE parsePriority(SubSeq(sortOrder, i + 1, Len(sortOrder)))

getPriorityFromInformedEntity(informedEntity) ==
  IF IsNone(informedEntity.MercuryEntitySelector) THEN None
  ELSE getPriorityFromSortOrder(
         GetString(Get(informedEntity.MercuryEntitySelector).SortOrder),
         LastIndexColon(GetString(Get(informedEntity.MercuryEntitySelector).SortOrder)))

\* buildMetadata: the JSON text of the metadata of a Mercury alert.
buildMetadata(alert) ==
  IF IsNone(alert.MercuryAlert) THEN None
  ELSE Some(<< "json", Get(alert.MercuryAlert) >>)

\* updateElevatorAlert: the ID of the stop the alert informs.
elevatorInformedEntityID(extension, match) ==
  IF extension.elevatorAlertsInformUsingStationIDs THEN match[1] ELSE match[1] \o match[2]

\* updateElevatorAlert: the ID the alert gets under the deduplication policy.
elevatorNewID(extension, match) ==
  IF extension.elevatorAlertsDeduplicationPolicy = "DeduplicateInStation"
  THEN match[1] \o << "#", "E", "L" >> \o match[3]
  ELSE IF extension.elevatorAlertsDeduplicationPolicy = "DeduplicateInComplex"
  THEN << "e", "l", "e", "v", "a", "t", "o", "r", ":", "E", "L" >> \o match[3]
  ELSE match[1] \o match[2] \o << "#", "E", "L" >> \o match[3]

\* updateElevatorAlert: entity i with its cause, its effect and its ID set,
\* and its informed entities cleared when it becomes the deduplicated alert.
elevatorMark(entities, i, newID, alreadyExists) ==
  [entities EXCEPT
     ![i].Id = Some(newID),
     ![i].Alert = Some([Get(entities[i].Alert) EXCEPT
                          !.Cause = Some("MAINTENANCE"),
                          !.Effect = Some("ACCESSIBILITY_ISSUE"),
                          !.InformedEntity = IF alreadyExists THEN @ ELSE << >>])]

\* updateElevatorAlert that appends the stop to the deduplicated alert even
\* when the alert informs it already.
elevatorInform_Always(entities, d, informedEntityID) ==
  [entities EXCEPT ![d].Alert =
     Some([Get(entities[d].Alert) EXCEPT
             !.InformedEntity =
               Append(@, [ AgencyId |-> None, RouteId |-> None, RouteType |-> None,
                           DirectionId |-> None, Trip |-> None,
                           StopId |-> Some(informedEntityID),
                           MercuryEntitySelector |-> None ])])]

\* updateElevatorAlert: the deduplicated alert, entity d, informs the stop.
elevatorInform(entities, d, informedEntityID) ==
  IF \E k \in DOMAIN Get(entities[d].Alert).InformedEntity :
       Get(entities[d].Alert).InformedEntity[k].StopId = Some(informedEntityID)
  THEN entities
  ELSE [entities EXCEPT ![d].Alert =
          Some([Get(entities[d].Alert) EXCEPT
                  !.InformedEntity =
                    Append(@, [ AgencyId |-> None, RouteId |-> None, RouteType |-> None,
                                DirectionId |-> None, Trip |-> None,
                                StopId |-> Some(informedEntityID),
                                MercuryEntitySelector |-> None ])])]

\* What the deduplication table holds for an alert of a message that an
\* earlier call of ParseRealtime parsed with this extension; otherwise it
\* holds the index of the alert in the message of this call.
EarlierMessage == 0

\* updateElevatorAlert, once the ID has matched elevatorAlertIDRegex. A stop
\* appended to an alert of an earlier message changes nothing in the message
\* of this call.
updateElevatorAlertTo(elevatorAlerts, entities, i, newID, informedEntityID) ==
  [ entities |->
      IF newID \in DOMAIN elevatorAlerts /\ elevatorAlerts[newID] = EarlierMessage
      THEN elevatorMark(entities, i, newID, TRUE)
      ELSE elevatorInform(elevatorMark(entities, i, newID, newID \in DOMAIN elevatorAlerts),
                          IF newID \in DOMAIN elevatorAlerts THEN elevatorAlerts[newID] ELSE i,
                          informedEntityID),
    elevatorAlerts |->
      MapPut(elevatorAlerts, newID,
             IF newID \in DOMAIN elevatorAlerts THEN elevatorAlerts[newID] ELSE i),
    matched |-> TRUE,
    alreadyExists |-> newID \in DOMAIN elevatorAlerts ]

\* updateElevatorAlert, given the match of elevatorAlertIDRegex on the ID.
updateElevatorAlertMatch(extension, elevatorAlerts, entities, i, match) ==
  IF IsNone(match)
  THEN [ entities |-> entities, elevatorAlerts |-> elevatorAlerts,
         matched |-> FALSE, alreadyExists |-> FALSE ]
  ELSE updateElevatorAlertTo(elevatorAlerts, entities, i,
                             elevatorNewID(extension, Get(match)),
                             elevatorInformedEntityID(extension, Get(match)))

\* updateElevatorAlert on entity i of the message: the entities and the
\* deduplication table afterwards, whether the ID is one of an elevator alert
\* (matched) and whether an alert with the new ID was in the table.
updateElevatorAlert(extension, elevatorAlerts, entities, i) ==
  updateElevatorAlertMatch(extension, elevatorAlerts, entities, i,
                           elevatorAlertIDRegex(GetString(entities[i].Id)))

\* UpdateAlert of the NYCT alerts extension, one iteration of the loop over the
\* informed entities.
updateAlertPriority(extension, before, priority) ==
  IF before.skip \/ IsNone(priority) THEN before
  ELSE [ Effect |-> IF Get(priority) \in DOMAIN priortyToEffect
                    THEN Some(priortyToEffect[Get(priority)]) ELSE before.Effect,
         skip |-> /\ extension.skipTimetabledNoServiceAlerts
                  /\ Get(priority) \in timetabledNoServicePriorities ]

\* UpdateAlert of the NYCT alerts extension, loop over the informed entities:
\* the effect set and whether the loop returned true, after n entities.
RECURSIVE updateAlertPriorities(_, _, _)
updateAlertPriorities(extension, alert, n) ==
  IF n = 0 THEN [Effect |-> alert.Effect, skip |-> FALSE]
  ELSE updateAlertPriority(extension, updateAlertPriorities(extension, alert, n - 1),
                           getPriorityFromInformedEntity(alert.InformedEntity[n]))

\* UpdateAlert of the NYCT alerts extension: the cause of the alert.
alertCause(ID, alert) ==
  IF HasPrefix(ID, << "l", "m", "m", ":", "p", "l", "a", "n", "n", "e", "d",
                      "_", "w", "o", "r", "k" >>)
  THEN "MAINTENANCE"
  ELSE IF HasPrefix(ID, << "l", "m", "m", ":", "a", "l", "e", "r", "t" >>)
  THEN "TECHNICAL_PROBLEM"
  ELSE IF IsSome(alert.Cause) THEN Get(alert.Cause)
  ELSE "UNKNOWN_CAUSE"

\* UpdateAlert of the NYCT alerts extension: the description with the
\* metadata appended.
alertDescription(extension, alert, metadata) ==
  IF ~extension.addNyctMetadata \/ IsNone(metadata) THEN alert.DescriptionText
  ELSE Some([Translation |->
               Append(IF IsSome(alert.DescriptionText)
                      THEN Get(alert.DescriptionText).Translation ELSE << >>,
                      [ Text |-> Some(Get(metadata)), Language |-> Some(<< "Metadata" >>) ])])

\* UpdateAlert of the NYCT alerts extension on an alert that is not a
\* duplicate elevator alert.
updateAlertFields(extension, ID, alert, priorities) ==
  [alert EXCEPT
     !.Cause = Some(alertCause(ID, alert)),
     !.Effect = priorities.Effect,
     !.DescriptionText = IF priorities.skip THEN @
                         ELSE alertDescription(extension, alert, buildMetadata(alert))]

\* UpdateAlert of the NYCT alerts extension, after updateElevatorAlert.
UpdateAlertAfter(extension, elevator, i, priorities) ==
  IF elevator.alreadyExists
  THEN [ entities |-> elevator.entities, elevatorAlerts |-> elevator.elevatorAlerts,
         skip |-> TRUE ]
  ELSE [ entities |->
           [elevator.entities EXCEPT ![i].Alert =
              Some(updateAlertFields(extension, GetString(elevator.entities[i].Id),
                                     Get(elevator.entities[i].Alert), priorities))],
         elevatorAlerts |-> elevator.elevatorAlerts,
         skip |-> priorities.skip ]

\* UpdateAlert of the NYCT alerts extension, given what updateElevatorAlert did.
UpdateAlertElevator(extension, elevator, i) ==
  UpdateAlertAfter(extension, elevator, i,
                   updateAlertPriorities(extension, Get(elevator.entities[i].Alert),
                                         Len(Get(elevator.entities[i].Alert).InformedEntity)))

\* Extension.UpdateAlert on entity i of the message: the entities and the
\* deduplication table afterwards, and the skip signal.
UpdateAlert(extension, elevatorAlerts, entities, i) ==
  IF extension.name # "nyctalerts"
  THEN [entities |-> entities, elevatorAlerts |-> elevatorAlerts, skip |-> FALSE]
  ELSE UpdateAlertElevator(extension, updateElevatorAlert(extension, elevatorAlerts, entities, i), i)

\* ------------------------------------------------------------ ParseRealtime

VARIABLES
  content,            \* the input: whether it decodes, and the message it decodes to
  opts,               \* ParseRealtimeOptions: the extension
  elevatorAlerts,     \* the deduplication table of the NYCT alerts extension
  pc,                 \* the position in ParseRealtime
  feedMessage,        \* the decoded message, which the extension rewrites
  i,                  \* the index of the entity a loop is at, from 1
  shouldSkip,         \* the skip flags of the first loop
  hookCalls,          \* the calls of the extension made so far, in order
  tripsById, vehiclesByID, tripIDToVehicleID, vehicleIDToTripID, vehiclesWithNoID,
  trip, vehicle,      \* the trip and the vehicle of the last iteration of the second loop
  result,             \* the Realtime under construction
  returned,           \* what ParseRealtime returned: the result and the error
  receiver,           \* the two entities that Hash is called on, one after the other
  hasher,             \* the hasher of the Hash call that runs: what it wrote and what it buffers
  hashes,             \* what the Hash calls that returned wrote to their hash functions
  less                \* a call of TripID.Less: the receiver, the argument and what it returned

vars ==
  << content, opts, elevatorAlerts, pc, feedMessage, i, shouldSkip, hookCalls,
     tripsById, vehiclesByID, tripIDToVehicleID, vehicleIDToTripID, vehiclesWithNoID,
     trip, vehicle, result, returned, receiver, hasher, hashes, less >>

ZeroRealtime == [CreatedAt |-> None, Trips |-> << >>, Vehicles |-> << >>, Alerts |-> << >>]

NoMessage == [Header |-> [Timestamp |-> None], Entity |-> << >>]

\* The state of the second loop: the maps, the list of vehicles without ID,
\* the alerts appended to the result and the locals of the iteration.
MergeState ==
  [ tripsById |-> tripsById, vehiclesByID |-> vehiclesByID,
    tripIDToVehicleID |-> tripIDToVehicleID, vehicleIDToTripID |-> vehicleIDToTripID,
    vehiclesWithNoID |-> vehiclesWithNoID, Alerts |-> result.Alerts,
    trip |-> trip, vehicle |-> vehicle ]

EmptyMergeState ==
  [ tripsById |-> EmptyMap, vehiclesByID |-> EmptyMap,
    tripIDToVehicleID |-> EmptyMap, vehicleIDToTripID |-> EmptyMap,
    vehiclesWithNoID |-> << >>, Alerts |-> << >>, trip |-> None, vehicle |-> None ]

\* Second loop, the choice of the decoder of an entity. The routes of an alert
\* are visited in the given order.
DecodeEntity(entity, extension, order) ==
  IF IsSome(entity.TripUpdate) THEN parseTripUpdate(Get(entity.TripUpdate), extension)
  ELSE IF IsSome(entity.Vehicle) THEN parseVehicle(Get(entity.Vehicle))
  ELSE IF IsSome(entity.Alert) THEN parseAlert(GetString(entity.Id), Get(entity.Alert), order)
  ELSE Decoded(None, None, None, << >>, FALSE)

\* The orders in which the decoder of an entity may visit a map.
DecodeOrders(entity) ==
  IF IsNone(entity.TripUpdate) /\ IsNone(entity.Vehicle) /\ IsSome(entity.Alert)
  THEN alertRouteOrders(Get(entity.Alert))
  ELSE { << >> }

\* Second loop: the entry of tripsById is created if need be and merged.
MergeTripInto(byId, new) ==
  MapPut(byId, new.ID, mergeTrip(IF new.ID \in DOMAIN byId THEN byId[new.ID] ELSE ZeroTrip, new))

\* Second loop: the entry of vehiclesByID is created if need be and merged.
MergeVehicleInto(byID, new) ==
  MapPut(byID, Get(new.ID),
         mergeVehicle(IF Get(new.ID) \in DOMAIN byID THEN byID[Get(new.ID)] ELSE ZeroVehicle,
                      new))

\* Second loop, merging the trips of an alert into tripsById.
RECURSIVE MergeAlertTrips(_, _, _)
MergeAlertTrips(byId, trips, n) ==
  IF n = 0 THEN byId ELSE MergeTripInto(MergeAlertTrips(byId, trips, n - 1), trips[n])

\* Second loop, if alert != nil.
MergeAlert(st, d) ==
  IF IsSome(d.alert)
  THEN [st EXCEPT !.Alerts = Append(@, Get(d.alert)),
                  !.tripsById = MergeAlertTrips(@, d.alertTrips, Len(d.alertTrips))]
  ELSE st

\* Second loop, if trip != nil.
MergeTrip(st, d) ==
  IF IsSome(d.trip) THEN [st EXCEPT !.tripsById = MergeTripInto(@, Get(d.trip))] ELSE st

\* Second loop, if vehicle != nil.
MergeVehicle(st, d) ==
  IF IsNone(d.vehicle) THEN st
  ELSE IF IsSome(Get(d.vehicle).ID)
  THEN [st EXCEPT !.vehiclesByID = MergeVehicleInto(@, Get(d.vehicle))]
  ELSE [st EXCEPT !.vehiclesWithNoID = Append(@, Get(d.vehicle))]

\* The pairing of the second loop recorded only when the trip and the vehicle
\* have none yet.
MergeLink_KeepFirst(st, d) ==
  IF IsNone(d.trip) \/ IsNone(d.vehicle)
  THEN [st EXCEPT !.trip = d.trip, !.vehicle = d.vehicle]
  ELSE IF IsSome(Get(d.vehicle).ID)
  THEN [st EXCEPT
          !.tripIDToVehicleID = IF Get(d.trip).ID \in DOMAIN @ THEN @
                                ELSE MapPut(@, Get(d.trip).ID, Get(Get(d.vehicle).ID)),
          !.vehicleIDToTripID = IF Get(Get(d.vehicle).ID) \in DOMAIN @ THEN @
                                ELSE MapPut(@, Get(Get(d.vehicle).ID), Get(d.trip).ID),
          !.trip = d.trip, !.vehicle = d.vehicle]
  ELSE [st EXCEPT
          !.trip = Some([Get(d.trip) EXCEPT !.Vehicle = Some(LocalVehiclePtr)]),
          !.vehicle = d.vehicle]

\* Second loop, if trip != nil && vehicle != nil: the pairing is recorded, or
\* the trip decoded by this iteration gets the vehicle decoded by it.
MergeLink(st, d) ==
  IF IsNone(d.trip) \/ IsNone(d.vehicle)
  THEN [st EXCEPT !.trip = d.trip, !.vehicle = d.vehicle]
  ELSE IF IsSome(Get(d.vehicle).ID)
  THEN [st EXCEPT
          !.tripIDToVehicleID = MapPut(@, Get(d.trip).ID, Get(Get(d.vehicle).ID)),
          !.vehicleIDToTripID = MapPut(@, Get(Get(d.vehicle).ID), Get(d.trip).ID),
          !.trip = d.trip, !.vehicle = d.vehicle]
  ELSE [st EXCEPT
          !.trip = Some([Get(d.trip) EXCEPT !.Vehicle = Some(LocalVehiclePtr)]),
          !.vehicle = d.vehicle]

\* Second loop, the part of the body after decoding.
Merge(st, d) == MergeLink(MergeVehicle(MergeTrip(MergeAlert(st, d), d), d), d)

\* Second loop, the body once the entity is decoded.
MergeDecoded(st, d) ==
  IF ~d.ok THEN [st EXCEPT !.trip = None, !.vehicle = None] ELSE Merge(st, d)

\* The body of the second loop without the test of shouldSkip.
MergeEntity_NoSkip(st, entity, skip, extension, order) ==
  MergeDecoded(st, DecodeEntity(entity, extension, order))

\* Second loop, the body for one entity.
MergeEntity(st, entity, skip, extension, order) ==
  IF skip THEN [st EXCEPT !.trip = None, !.vehicle = None]
  ELSE MergeDecoded(st, DecodeEntity(entity, extension, order))

\* Third part, first loop: the trips get their vehicles.
LinkTrips(byId, toVehicleID) ==
  [tripID \in DOMAIN byId |->
     IF tripID \in DOMAIN toVehicleID
     THEN [byId[tripID] EXCEPT !.Vehicle = Some(VehiclePtr(toVehicleID[tripID]))]
     ELSE byId[tripID]]

\* The second loop of the third part without the assignment of vehicle.Trip.
LinkVehicles_Unlinked(byID, toTripID) == byID

\* Third part, second loop: the vehicles get their trips.
LinkVehicles(byID, toTripID) ==
  [vehicleID \in DOMAIN byID |->
     IF vehicleID \in DOMAIN toTripID
     THEN [byID[vehicleID] EXCEPT !.Trip = Some(TripPtr(toTripID[vehicleID]))]
     ELSE byID[vehicleID]]

\* What sort.Slice may leave: a permutation in which no element is less than
\* the one before it.
Sorts(trips) ==
  { sorted \in { [k \in DOMAIN trips |-> trips[p[k]]] : p \in Orders(DOMAIN trips) } :
      \A k \in 1..(Len(sorted) - 1) : ~Less(sorted[k + 1].ID, sorted[k].ID) }

\* ParseRealtime returning the empty result along with the error.
Unmarshal_ResultWithError ==
  /\ pc = "start"
  /\ IF ~content.ok
     THEN /\ returned' = [result |-> Some(result), err |-> Some("failed to parse input")]
          /\ pc' = "done"
          /\ UNCHANGED << feedMessage, result, shouldSkip >>
     ELSE /\ feedMessage' = content.message
          /\ result' = [result EXCEPT !.CreatedAt = content.message.Header.Timestamp]
          /\ shouldSkip' = [k \in DOMAIN content.message.Entity |-> FALSE]
          /\ pc' = IF Len(content.message.Entity) = 0 THEN "trips" ELSE "extension"
          /\ UNCHANGED returned
  /\ UNCHANGED << less, receiver, hasher, hashes, content, opts, elevatorAlerts, i, hookCalls, tripsById, vehiclesByID,
                  tripIDToVehicleID, vehicleIDToTripID, vehiclesWithNoID, trip, vehicle >>

\* proto.Unmarshal, the creation time and the allocation of the skip flags.
Unmarshal ==
  /\ pc = "start"
  /\ IF ~content.ok
     THEN /\ returned' = [result |-> None, err |-> Some("failed to parse input")]
          /\ pc' = "done"
          /\ UNCHANGED << feedMessage, result, shouldSkip >>
     ELSE /\ feedMessage' = content.message
          /\ result' = [result EXCEPT !.CreatedAt = content.message.Header.Timestamp]
          /\ shouldSkip' = [k \in DOMAIN content.message.Entity |-> FALSE]
          /\ pc' = IF Len(content.message.Entity) = 0 THEN "trips" ELSE "extension"
          /\ UNCHANGED returned
  /\ UNCHANGED << less, receiver, hasher, hashes, content, opts, elevatorAlerts, i, hookCalls, tripsById, vehiclesByID,
                  tripIDToVehicleID, vehicleIDToTripID, vehiclesWithNoID, trip, vehicle >>

\* The first loop calling UpdateTrip on a copy of the trip update.
ExtensionTrip_OnCopy(r) ==
  /\ shouldSkip' = [shouldSkip EXCEPT ![i] = r.ShouldSkip]
  /\ hookCalls' = Append(hookCalls, << "UpdateTrip", i >>)
  /\ UNCHANGED << feedMessage, elevatorAlerts >>

\* First loop, a trip update: what UpdateTrip returned is stored.
ExtensionTrip(r) ==
  /\ feedMessage' = [feedMessage EXCEPT !.Entity[i].TripUpdate = Some(r.trip)]
  /\ shouldSkip' = [shouldSkip EXCEPT ![i] = r.ShouldSkip]
  /\ hookCalls' = Append(hookCalls, << "UpdateTrip", i >>)
  /\ UNCHANGED elevatorAlerts

\* First loop, a vehicle position: UpdateVehicle rewrites it.
ExtensionVehicle(vehiclePosition) ==
  /\ feedMessage' = [feedMessage EXCEPT !.Entity[i].Vehicle = Some(vehiclePosition)]
  /\ hookCalls' = Append(hookCalls, << "UpdateVehicle", i >>)
  /\ UNCHANGED << shouldSkip, elevatorAlerts >>

\* First loop, an alert: what UpdateAlert returned is stored.
ExtensionAlert(r) ==
  /\ feedMessage' = [feedMessage EXCEPT !.Entity = r.entities]
  /\ elevatorAlerts' = r.elevatorAlerts
  /\ shouldSkip' = [shouldSkip EXCEPT ![i] = r.skip]
  /\ hookCalls' = Append(hookCalls, << "UpdateAlert", i >>)

\* First loop, a trip update on which UpdateTrip panics: ParseRealtime does
\* not return.
ExtensionPanic ==
  /\ hookCalls' = Append(hookCalls, << "UpdateTrip", i >>)
  /\ pc' = "panic"
  /\ UNCHANGED << less, receiver, hasher, hashes, content, opts, elevatorAlerts, feedMessage, i, shouldSkip, tripsById,
                  vehiclesByID, tripIDToVehicleID, vehicleIDToTripID, vehiclesWithNoID,
                  trip, vehicle, result, returned >>

\* First loop, one entity: the extension rewrites it and may ask to skip it.
ExtensionStep ==
  /\ IF IsSome(feedMessage.Entity[i].TripUpdate)
     THEN ExtensionTrip(UpdateTrip(opts.Extension, Get(feedMessage.Entity[i].TripUpdate),
                                   GetNumber(feedMessage.Header.Timestamp)))
     ELSE IF IsSome(feedMessage.Entity[i].Vehicle)
     THEN ExtensionVehicle(UpdateVehicle(opts.Extension, Get(feedMessage.Entity[i].Vehicle)))
     ELSE IF IsSome(feedMessage.Entity[i].Alert)
     THEN ExtensionAlert(UpdateAlert(opts.Extension, elevatorAlerts, feedMessage.Entity, i))
     ELSE UNCHANGED << feedMessage, shouldSkip, hookCalls, elevatorAlerts >>
  /\ i' = IF i = Len(feedMessage.Entity) THEN 1 ELSE i + 1
  /\ pc' = IF i = Len(feedMessage.Entity) THEN "merge" ELSE "extension"
  /\ UNCHANGED << less, receiver, hasher, hashes, content, opts, tripsById, vehiclesByID, tripIDToVehicleID,
                  vehicleIDToTripID, vehiclesWithNoID, trip, vehicle, result, returned >>

\* First loop, one entity.
ExtensionPass ==
  /\ pc = "extension"
  /\ IF /\ IsSome(feedMessage.Entity[i].TripUpdate)
        /\ UpdateTripPanics(opts.Extension, Get(feedMessage.Entity[i].TripUpdate))
     THEN ExtensionPanic
     ELSE ExtensionStep

\* Second loop: the state after the body is stored.
MergeStore(st) ==
  /\ tripsById' = st.tripsById
  /\ vehiclesByID' = st.vehiclesByID
  /\ tripIDToVehicleID' = st.tripIDToVehicleID
  /\ vehicleIDToTripID' = st.vehicleIDToTripID
  /\ vehiclesWithNoID' = st.vehiclesWithNoID
  /\ result' = [result EXCEPT !.Alerts = st.Alerts]
  /\ trip' = st.trip
  /\ vehicle' = st.vehicle

\* Second loop, one entity: it is decoded and merged, unless it is skipped.
MergePass ==
  /\ pc = "merge"
  /\ \E order \in DecodeOrders(feedMessage.Entity[i]) :
       MergeStore(MergeEntity(MergeState, feedMessage.Entity[i], shouldSkip[i],
                              opts.Extension, order))
  /\ i' = IF i = Len(feedMessage.Entity) THEN 1 ELSE i + 1
  /\ pc' = IF i = Len(feedMessage.Entity) THEN "trips" ELSE "merge"
  /\ UNCHANGED << less, receiver, hasher, hashes, content, opts, elevatorAlerts, feedMessage, shouldSkip, hookCalls, returned >>

\* Third part, first loop: every trip gets its vehicle and is appended to the
\* result, the map being visited in some order.
FinalizeTrips ==
  /\ pc = "trips"
  /\ tripsById' = LinkTrips(tripsById, tripIDToVehicleID)
  /\ \E order \in Orders(DOMAIN tripsById) :
       result' = [result EXCEPT !.Trips = [k \in DOMAIN order |-> tripsById'[order[k]]]]
  /\ pc' = "sort"
  /\ UNCHANGED << less, receiver, hasher, hashes, content, opts, elevatorAlerts, feedMessage, i, shouldSkip, hookCalls,
                  vehiclesByID, tripIDToVehicleID, vehicleIDToTripID, vehiclesWithNoID,
                  trip, vehicle, returned >>

\* Third part: sort.Slice of the trips by TripID.Less.
SortTrips ==
  /\ pc = "sort"
  /\ \E sorted \in Sorts(result.Trips) : result' = [result EXCEPT !.Trips = sorted]
  /\ pc' = "vehicles"
  /\ UNCHANGED << less, receiver, hasher, hashes, content, opts, elevatorAlerts, feedMessage, i, shouldSkip, hookCalls,
                  tripsById, vehiclesByID, tripIDToVehicleID, vehicleIDToTripID,
                  vehiclesWithNoID, trip, vehicle, returned >>

\* Third part, second loop and return: every vehicle gets its trip and is
\* appended to the result, then the vehicles without ID are appended.
FinalizeVehicles ==
  /\ pc = "vehicles"
  /\ vehiclesByID' = LinkVehicles(vehiclesByID, vehicleIDToTripID)
  /\ \E order \in Orders(DOMAIN vehiclesByID) :
       result' = [result EXCEPT !.Vehicles =
                    [k \in DOMAIN order |-> vehiclesByID'[order[k]]] \o vehiclesWithNoID]
  /\ returned' = [result |-> Some(result'), err |-> None]
  /\ pc' = "done"
  /\ UNCHANGED << less, receiver, hasher, hashes, content, opts, elevatorAlerts, feedMessage, i, shouldSkip, hookCalls,
                  tripsById, tripIDToVehicleID, vehicleIDToTripID, vehiclesWithNoID,
                  trip, vehicle >>

\* ----------------------------------------------------------------- hashing

\* binary.Write with binary.LittleEndian: the w bytes of a value below 2^31,
\* the low byte first.
LittleEndian(n, w) ==
  [k \in 1..w |-> IF k > 4 THEN 0 ELSE (n \div (256 ^ (k - 1))) % 256]

\* The bytes of a product, modulo 256^Len(bytes): the multiplication of Go's
\* fixed-width integers. The bytes and the carry are taken once, as b and c.
RECURSIVE MulBytes(_, _, _)
MulBytes(bytes, k, carry) ==
  CHOOSE product \in
    { IF b = << >> THEN << >>
      ELSE << (Head(b) * k + c) % 256 >> \o MulBytes(Tail(b), k, (Head(b) * k + c) \div 256) :
        b \in { bytes }, c \in { carry } } : TRUE

\* The two's complement of the bytes of a value: the bytes of its negation.
RECURSIVE AddBytes(_, _)
AddBytes(bytes, carry) ==
  CHOOSE sum \in
    { IF b = << >> THEN << >>
      ELSE << (Head(b) + c) % 256 >> \o AddBytes(Tail(b), (Head(b) + c) \div 256) :
        b \in { bytes }, c \in { carry } } : TRUE

NegBytes(bytes) == AddBytes([k \in DOMAIN bytes |-> 255 - bytes[k]], 1)

\* The w bytes of a signed value.
SignedBytes(n, w) ==
  IF n >= 0 THEN LittleEndian(n, w) ELSE NegBytes(LittleEndian(0 - n, w))

\* What binary.Write writes for a value of each of the types hashed.
BoolBytes(a) == << IF a THEN 1 ELSE 0 >>

Uint8Bytes(n) == LittleEndian(n, 1)

Int32Bytes(n) == SignedBytes(n, 4)

Uint32Bytes(n) == LittleEndian(n, 4)

Int64Bytes(n) == SignedBytes(n, 8)

Uint64Bytes(n) == LittleEndian(n, 8)

\* A time.Duration counts nanoseconds: the bytes of a number of seconds
\* multiplied by time.Second.
DurationBytes(seconds) ==
  IF seconds >= 0
  THEN MulBytes(MulBytes(MulBytes(LittleEndian(seconds, 8), 1000, 0), 1000, 0), 1000, 0)
  ELSE NegBytes(MulBytes(MulBytes(MulBytes(LittleEndian(0 - seconds, 8), 1000, 0), 1000, 0), 1000, 0))

\* Time.Unix of the midnight that starts a day, in UTC: the bytes of the
\* seconds since January 1, 1970.
DateUnixBytes(day) ==
  IF day >= Date(1970, 1, 1)
  THEN MulBytes(LittleEndian(day - Date(1970, 1, 1), 8), 86400, 0)
  ELSE NegBytes(MulBytes(LittleEndian(Date(1970, 1, 1) - day, 8), 86400, 0))

\* The exponent of a positive whole number: the position of its highest bit.
RECURSIVE Log2(_)
Log2(n) == IF n < 2 THEN 0 ELSE 1 + Log2(n \div 2)

\* math.Float32bits of a whole number from 0 below 2^24: the biased exponent
\* above the 23 bits of the fraction.
Float32Bytes(n) ==
  IF n = 0 THEN LittleEndian(0, 4)
  ELSE LittleEndian((127 + Log2(n)) * (2 ^ 23) + (n - 2 ^ Log2(n)) * (2 ^ (23 - Log2(n))), 4)

\* math.Float64bits of a whole number from 0 below 2^20: the low four bytes
\* of the 52 bits of the fraction are zero.
Float64Bytes(n) ==
  IF n = 0 THEN LittleEndian(0, 8)
  ELSE LittleEndian(0, 4)
         \o LittleEndian((1023 + Log2(n)) * (2 ^ 20) + (n - 2 ^ Log2(n)) * (2 ^ (20 - Log2(n))), 4)

\* []byte(s)
StringBytes(s) == [k \in DOMAIN s |-> Ord(s[k])]

\* hasher{h: h}: h is what was written to the hash function, b the buffer.
NewHasher == [h |-> << >>, b |-> << >>]

hasher_flush(h) == [h |-> h.h \o h.b, b |-> << >>]

\* hasher.number: binary.Write to the buffer.
hasher_number(h, bytes) == [h EXCEPT !.b = @ \o bytes]

\* hasher.string without the length before the bytes.
hasher_string_NoLength(h, s) == [hasher_flush(h) EXCEPT !.h = @ \o StringBytes(s)]

\* hasher.string: the length, a flush, then the bytes straight to the hash function.
hasher_string(h, s) ==
  [hasher_flush(hasher_number(h, Uint64Bytes(Len(s)))) EXCEPT !.h = @ \o StringBytes(s)]

\* hashNumberPtr, given the bytes of *a for the type of a.
hashNumberPtr(h, a, bytes) ==
  IF IsNone(a) THEN hasher_number(h, BoolBytes(TRUE))
  ELSE hasher_number(hasher_number(h, BoolBytes(FALSE)), bytes)

hasher_stringPtr(h, a) ==
  IF IsNone(a) THEN hasher_number(h, BoolBytes(TRUE))
  ELSE hasher_string(hasher_number(h, BoolBytes(FALSE)), Get(a))

\* hasher.timePtr: the times of the model are the seconds of t.Unix().
hasher_timePtr(h, t) == hashNumberPtr(h, t, Int64Bytes(GetNumber(t)))

\* hasher.trip, the body of the loop over the arrival and the departure.
hasher_event(h, event) ==
  IF IsNone(event) THEN hasher_number(h, BoolBytes(TRUE))
  ELSE hashNumberPtr(
         hashNumberPtr(
           hasher_timePtr(hasher_number(h, BoolBytes(FALSE)), Get(event).Time),
           Get(event).Delay, DurationBytes(GetNumber(Get(event).Delay))),
         Get(event).Uncertainty, Int32Bytes(GetNumber(Get(event).Uncertainty)))

\* hasher.trip, the body of the loop over the stop time updates.
hasher_stopTimeUpdate(h, stu) ==
  LET h1 == hashNumberPtr(h, stu.StopSequence, Uint32Bytes(GetNumber(stu.StopSequence)))
      h2 == hasher_stringPtr(h1, stu.StopID)
      h3 == hasher_stringPtr(h2, stu.NyctTrack)
      h4 == hasher_number(h3, Int32Bytes(stu.ScheduleRelationship))
      h5 == hasher_event(h4, stu.Arrival)
  IN hasher_event(h5, stu.Departure)

\* hasher.trip as it was before the schedule relationships were hashed.
hasher_tripID_NoScheduleRelationship(h, t) ==
  LET h1 == hasher_string(h, t.ID.ID)
      h2 == hasher_string(h1, t.ID.RouteID)
      h3 == hasher_number(h2, Uint8Bytes(t.ID.DirectionID))
      h4 == hasher_number(h3, BoolBytes(t.ID.HasStartDate))
      h5 == hasher_number(h4, DateUnixBytes(t.ID.StartDate))
      h6 == hasher_number(h5, BoolBytes(t.ID.HasStartTime))
      h7 == hasher_number(h6, DurationBytes(t.ID.StartTime))
  IN hasher_number(h7, Int64Bytes(Len(t.StopTimeUpdates)))

\* hasher.trip up to its loop: the TripID and the number of stop time updates.
hasher_tripID(h, t) ==
  LET h1 == hasher_string(h, t.ID.ID)
      h2 == hasher_string(h1, t.ID.RouteID)
      h3 == hasher_number(h2, Uint8Bytes(t.ID.DirectionID))
      h4 == hasher_number(h3, BoolBytes(t.ID.HasStartDate))
      h5 == hasher_number(h4, DateUnixBytes(t.ID.StartDate))
      h6 == hasher_number(h5, BoolBytes(t.ID.HasStartTime))
      h7 == hasher_number(h6, DurationBytes(t.ID.StartTime))
      h8 == hasher_number(h7, Int64Bytes(Len(t.StopTimeUpdates)))
  IN hasher_number(h8, Int32Bytes(t.ID.ScheduleRelationship))

\* hasher.vehicle with the IsEntityInMessage flag hashed after the ID.
hasher_vehicleID_InMessage(h, v) ==
  IF IsNone(v.ID)
  THEN hasher_number(hasher_number(h, BoolBytes(TRUE)), BoolBytes(v.IsEntityInMessage))
  ELSE hasher_number(
         hasher_string(
           hasher_string(
             hasher_string(hasher_number(h, BoolBytes(FALSE)), Get(v.ID).ID),
             Get(v.ID).Label),
           Get(v.ID).LicensePlate),
         BoolBytes(v.IsEntityInMessage))

\* hasher.vehicle up to the trip: the ID.
hasher_vehicleID(h, v) ==
  IF IsNone(v.ID) THEN hasher_number(h, BoolBytes(TRUE))
  ELSE hasher_string(
         hasher_string(
           hasher_string(hasher_number(h, BoolBytes(FALSE)), Get(v.ID).ID),
           Get(v.ID).Label),
         Get(v.ID).LicensePlate)

\* hasher.vehicle: whether there is a trip.
hasher_vehicleTrip(h, v) == hasher_number(h, BoolBytes(IsNone(v.Trip)))

hasher_position(h, position) ==
  IF IsNone(position) THEN hasher_number(h, BoolBytes(TRUE))
  ELSE LET h1 == hashNumberPtr(hasher_number(h, BoolBytes(FALSE)),
                               Get(position).Latitude, Float32Bytes(GetNumber(Get(position).Latitude)))
           h2 == hashNumberPtr(h1, Get(position).Longitude, Float32Bytes(GetNumber(Get(position).Longitude)))
           h3 == hashNumberPtr(h2, Get(position).Bearing, Float32Bytes(GetNumber(Get(position).Bearing)))
           h4 == hashNumberPtr(h3, Get(position).Odometer, Float64Bytes(GetNumber(Get(position).Odometer)))
       IN hashNumberPtr(h4, Get(position).Speed, Float32Bytes(GetNumber(Get(position).Speed)))

\* hasher.vehicle after the trip: the position and the other fields.
hasher_vehicleRest(h, v) ==
  LET h3 == hasher_position(h, v.Position)
      h4 == hashNumberPtr(h3, v.CurrentStopSequence, Uint32Bytes(GetNumber(v.CurrentStopSequence)))
      h5 == hasher_stringPtr(h4, v.StopID)
      h6 == hashNumberPtr(h5, v.CurrentStatus, Int32Bytes(GetNumber(v.CurrentStatus)))
      h7 == hasher_timePtr(h6, v.Timestamp)
      h8 == hasher_number(h7, Int32Bytes(v.CongestionLevel))
      h9 == hashNumberPtr(h8, v.OccupancyStatus, Int32Bytes(GetNumber(v.OccupancyStatus)))
  IN hashNumberPtr(h9, v.OccupancyPercentage, Uint32Bytes(GetNumber(v.OccupancyPercentage)))

\* No call of TripID.Less.
NoLess == [t1 |-> None, t2 |-> None, returned |-> None]

\* No Hash call.
NoReceiver == [type |-> "none", kind |-> "none", field |-> "none", value |-> << >>]

\* Hash is called on two entities in turn, each call with a new hash
\* function: the entity of the call that runs, and the trip that hasher.trip
\* hashes, which is the entity or the trip that the vehicle points to (held
\* in the vehicle).
Receiver == receiver.value[Len(hashes) + 1]

HashedTripOf(r) == IF receiver.type = "Trip" THEN r ELSE Get(r.Trip)

HashSteps == << less, receiver, content, opts, elevatorAlerts, feedMessage, shouldSkip,
                hookCalls, tripsById, vehiclesByID, tripIDToVehicleID, vehicleIDToTripID,
                vehiclesWithNoID, trip, vehicle, result, returned >>

\* Trip.Hash, up to the loop of hasher.trip.
Trip_Hash ==
  /\ pc = "hash"
  /\ receiver.type = "Trip"
  /\ hasher' = hasher_tripID(NewHasher, Receiver)
  /\ i' = 1
  /\ pc' = "stopTimeUpdates"
  /\ UNCHANGED << hashes, HashSteps >>

\* Vehicle.Hash, up to the loop of hasher.trip if the vehicle has a trip and
\* up to the position if not.
Vehicle_Hash ==
  /\ pc = "hash"
  /\ receiver.type = "Vehicle"
  /\ hasher' = IF IsNone(Receiver.Trip)
               THEN hasher_vehicleTrip(hasher_vehicleID(NewHasher, Receiver), Receiver)
               ELSE hasher_tripID(hasher_vehicleTrip(hasher_vehicleID(NewHasher, Receiver), Receiver),
                                  Get(Receiver.Trip))
  /\ i' = 1
  /\ pc' = IF IsNone(Receiver.Trip) THEN "position" ELSE "stopTimeUpdates"
  /\ UNCHANGED << hashes, HashSteps >>

\* hasher.trip, one iteration of the loop over the stop time updates.
Trip_StopTimeUpdate ==
  /\ pc = "stopTimeUpdates"
  /\ i <= Len(HashedTripOf(Receiver).StopTimeUpdates)
  /\ hasher' = hasher_stopTimeUpdate(hasher, HashedTripOf(Receiver).StopTimeUpdates[i])
  /\ i' = i + 1
  /\ UNCHANGED << pc, hashes, HashSteps >>

\* hasher.trip that would hash the vehicle of the trip: Hash starts over on
\* it.
Trip_Return_FollowsVehicle ==
  /\ pc = "stopTimeUpdates"
  /\ i > Len(HashedTripOf(Receiver).StopTimeUpdates)
  /\ i' = 1
  /\ pc' = IF IsSome(HashedTripOf(Receiver).Vehicle) THEN "hash"
           ELSE IF receiver.type = "Trip" THEN "flush" ELSE "position"
  /\ UNCHANGED << hasher, hashes, HashSteps >>

\* hasher.trip returns, to Trip.Hash or to hasher.vehicle.
Trip_Return ==
  /\ pc = "stopTimeUpdates"
  /\ i > Len(HashedTripOf(Receiver).StopTimeUpdates)
  /\ i' = 1
  /\ pc' = IF receiver.type = "Trip" THEN "flush" ELSE "position"
  /\ UNCHANGED << hasher, hashes, HashSteps >>

\* hasher.vehicle after the trip.
Vehicle_Rest ==
  /\ pc = "position"
  /\ hasher' = hasher_vehicleRest(hasher, Receiver)
  /\ pc' = "flush"
  /\ UNCHANGED << i, hashes, HashSteps >>

\* The flush that ends Hash: what was written to the hash function is kept,
\* and the next call starts.
Hash_Flush ==
  /\ pc = "flush"
  /\ hashes' = Append(hashes, hasher_flush(hasher).h)
  /\ hasher' = NewHasher
  /\ pc' = IF Len(hashes) + 1 = Len(receiver.value) THEN "hashed" ELSE "hash"
  /\ UNCHANGED << i, HashSteps >>

NextHash ==
  \/ Trip_Hash
  \/ Vehicle_Hash
  \/ Trip_StopTimeUpdate
  \/ Trip_Return
  \/ Vehicle_Rest
  \/ Hash_Flush

Next ==
  \/ Unmarshal
  \/ ExtensionPass
  \/ MergePass
  \/ FinalizeTrips
  \/ SortTrips
  \/ FinalizeVehicles

\* ---------------------------------------------------------------- messages

\* Raw messages, with the field names of the generated proto structs.
TripDescriptor(tripId, routeId, directionId, startTime, startDate) ==
  [ TripId |-> tripId, RouteId |-> routeId, DirectionId |-> directionId,
    StartTime |-> startTime, StartDate |-> startDate,
    ScheduleRelationship |-> None, NyctTripDescriptor |-> None ]

VehicleDescriptor(id) == [Id |-> id, Label |-> None, LicensePlate |-> None]

StopTimeEvent(time) == [Time |-> time, Delay |-> None, Uncertainty |-> None]

StopTimeUpdate(stopId, arrival, departure) ==
  [ StopSequence |-> None, StopId |-> stopId, Arrival |-> arrival,
    Departure |-> departure, ScheduleRelationship |-> None,
    NyctStopTimeUpdate |-> None ]

TripUpdate(tripDesc, vehicleDesc, stopTimeUpdates) ==
  [Trip |-> tripDesc, Vehicle |-> vehicleDesc, StopTimeUpdate |-> stopTimeUpdates]

VehiclePosition(tripDesc, vehicleDesc, stopId) ==
  [ Trip |-> tripDesc, Vehicle |-> vehicleDesc, Position |-> None,
    CurrentStopSequence |-> None, StopId |-> stopId, CurrentStatus |-> None,
    Timestamp |-> None, CongestionLevel |-> None, OccupancyStatus |-> None,
    OccupancyPercentage |-> None ]

EntitySelector(routeId, directionId, tripDesc, stopId) ==
  [ AgencyId |-> None, RouteId |-> routeId, RouteType |-> None,
    DirectionId |-> directionId, Trip |-> tripDesc, StopId |-> stopId,
    MercuryEntitySelector |-> None ]

Alert(informedEntities) ==
  [ ActivePeriod |-> << >>, InformedEntity |-> informedEntities, Cause |-> None,
    Effect |-> None, Url |-> None, HeaderText |-> None, DescriptionText |-> None,
    MercuryAlert |-> None ]

FeedEntity(id, tripUpdate, vehiclePosition, alert) ==
  [Id |-> Some(id), TripUpdate |-> tripUpdate, Vehicle |-> vehiclePosition, Alert |-> alert]

FeedMessage(timestamp, entities) == [Header |-> [Timestamp |-> timestamp], Entity |-> entities]

\* The inputs: bytes that do not decode, and the bytes of a message.
Malformed == [ok |-> FALSE, message |-> NoMessage]

Bytes(message) == [ok |-> TRUE, message |-> message]

\* The messages of at most n entities drawn from a set.
Messages(entities, n) ==
  { FeedMessage(Some(100), e) : e \in UNION { [1..k -> entities] : k \in 0..n } }

\* The state after construction: ParseRealtime is about to run on an input.
InitWith(contents, extensions) ==
  /\ content \in contents
  /\ opts \in [Extension : extensions]
  /\ elevatorAlerts = EmptyMap
  /\ pc = "start"
  /\ feedMessage = NoMessage
  /\ i = 1
  /\ shouldSkip = << >>
  /\ hookCalls = << >>
  /\ tripsById = EmptyMap
  /\ vehiclesByID = EmptyMap
  /\ tripIDToVehicleID = EmptyMap
  /\ vehicleIDToTripID = EmptyMap
  /\ vehiclesWithNoID = << >>
  /\ trip = None
  /\ vehicle = None
  /\ result = ZeroRealtime
  /\ returned = [result |-> None, err |-> None]
  /\ receiver = NoReceiver
  /\ less = NoLess
  /\ hasher = NewHasher
  /\ hashes = << >>

\* Trip descriptors: two trips with an ID; two descriptors without ID, with
\* route, direction, start time and start date, that decode to the same
\* TripID; one that names only a route.
tdA == TripDescriptor(Some(<< "a" >>), None, None, None, None)

tdB == TripDescriptor(Some(<< "b" >>), None, None, None, None)

tdR1 ==
  TripDescriptor(None, Some(<< "R" >>), Some(1),
                 Some(<< "0", "1", ":", "0", "0", ":", "0", "0" >>),
                 Some(<< "2", "0", "2", "4", "0", "1", "0", "1" >>))

tdR2 ==
  TripDescriptor(None, Some(<< "R" >>), Some(1),
                 Some(<< "0", "0", ":", "6", "0", ":", "0", "0" >>),
                 Some(<< "2", "0", "2", "3", "1", "2", "3", "2" >>))

tdRoute == TripDescriptor(None, Some(<< "R" >>), None, None, None)

\* Descriptors without ID of the route and direction of tdR1, with an earlier
\* start time and without start time.
tdR3 ==
  TripDescriptor(None, Some(<< "R" >>), Some(1),
                 Some(<< "0", "0", ":", "3", "0", ":", "0", "0" >>),
                 Some(<< "2", "0", "2", "4", "0", "1", "0", "1" >>))

tdR4 ==
  TripDescriptor(None, Some(<< "R" >>), Some(1), None,
                 Some(<< "2", "0", "2", "4", "0", "1", "0", "1" >>))

vd1 == VehicleDescriptor(Some(<< "v", "1" >>))

vd2 == VehicleDescriptor(Some(<< "v", "2" >>))

vdEmpty == VehicleDescriptor(Some(<< >>))

stu1 == StopTimeUpdate(Some(<< "s", "1" >>), None, None)

stu2 == StopTimeUpdate(Some(<< "s", "2" >>), None, None)

\* The entities of the messages of Spec.
Entities ==
  { FeedEntity(<< "1" >>, Some(TripUpdate(Some(tdA), Some(vd1), << stu1 >>)), None, None),
    FeedEntity(<< "2" >>, Some(TripUpdate(Some(tdA), None, << stu2 >>)), None, None),
    FeedEntity(<< "3" >>, Some(TripUpdate(Some(tdB), Some(vd1), << >>)), None, None),
    FeedEntity(<< "4" >>, Some(TripUpdate(None, Some(vd2), << stu1 >>)), None, None),
    FeedEntity(<< "5" >>, Some(TripUpdate(Some(tdB), Some(vdEmpty), << >>)), None, None),
    FeedEntity(<< "6" >>, None, Some(VehiclePosition(Some(tdA), Some(vd1), Some(<< "s", "1" >>))), None),
    FeedEntity(<< "8" >>, None, Some(VehiclePosition(Some(tdR1), Some(vd1), Some(<< "s", "2" >>))), None),
    FeedEntity(<< "9" >>, None, Some(VehiclePosition(None, None, Some(<< "s", "1" >>))), None),
    FeedEntity(<< "1", "0" >>, Some(TripUpdate(Some(tdR2), Some(vd2), << >>)), None, None),
    FeedEntity(<< "1", "1" >>, None, None,
               Some(Alert(<< EntitySelector(None, None, Some(tdB), None),
                             EntitySelector(None, None, Some(tdRoute), None) >>))),
    FeedEntity(<< "1", "3" >>, None, None, None),
    FeedEntity(<< "1", "5" >>, None, Some(VehiclePosition(Some(tdR3), Some(vd2), None)), None),
    FeedEntity(<< "1", "6" >>, Some(TripUpdate(Some(tdR4), None, << stu1 >>)), None, None) }

MaxFeed == 3

Contents == { Malformed } \cup { Bytes(m) : m \in Messages(Entities, MaxFeed) }

Init == InitWith(Contents, { NoExtension })

Spec == Init /\ [][Next]_vars

\* The extensions of SpecExt: the NYCT trips extension filtering stale
\* unassigned trips, the NYCT alerts extension deduplicating elevator alerts in
\* stations and skipping timetabled absences of service, and the NYCT bus
\* trips extension.
NyctTrips == [Extension("nycttrips") EXCEPT !.FilterStaleUnassignedTrips = TRUE]

NyctAlerts ==
  [Extension("nyctalerts") EXCEPT !.elevatorAlertsDeduplicationPolicy = "DeduplicateInStation",
                                  !.skipTimetabledNoServiceAlerts = TRUE]

NyctBusTrips == Extension("nyctbustrips")

\* A trip descriptor with the NYCT trip descriptor, of a trip that starts 100
\* hundredths of a minute after midnight.
tdNyct(trainId, isAssigned) ==
  [TripDescriptor(Some(<< "0", "0", "0", "1", "0", "0", "_", "1", ".", ".", "N" >>),
                  Some(<< "1" >>), None, None, None)
     EXCEPT !.NyctTripDescriptor =
       Some([TrainId |-> trainId, IsAssigned |-> isAssigned, Direction |-> Some("SOUTH")])]

\* Stop time updates that depart before and after the time of the message.
stuPast == StopTimeUpdate(Some(<< "s", "1" >>), None, Some(StopTimeEvent(Some(50))))

stuFuture == StopTimeUpdate(Some(<< "s", "1" >>), None, Some(StopTimeEvent(Some(150))))

\* An informed entity with the Mercury sort order of a timetabled absence of
\* service.
selNoService ==
  [EntitySelector(None, None, Some(tdB), None)
     EXCEPT !.MercuryEntitySelector = Some([SortOrder |-> Some(<< "R", ":", "2" >>)])]

\* The entities of the messages of SpecExt.
ExtEntities ==
  { FeedEntity(<< "1" >>, Some(TripUpdate(Some(tdNyct(None, Some(FALSE))), None, << stuPast >>)),
               None, None),
    FeedEntity(<< "2" >>,
               Some(TripUpdate(Some(tdNyct(Some(<< "t", "1" >>), Some(TRUE))), None,
                               << stuFuture >>)),
               None, None),
    FeedEntity(<< "3" >>,
               Some(TripUpdate(Some(tdNyct(None, Some(FALSE))), Some(vd1), << stuFuture >>)),
               None, None),
    FeedEntity(<< "4" >>, None,
               Some(VehiclePosition(Some(tdNyct(Some(<< "t", "1" >>), Some(TRUE))), None,
                                    Some(<< "s", "1" >>))),
               None),
    FeedEntity(<< "5" >>, Some(TripUpdate(None, Some(vd2), << stu1 >>)), None, None),
    FeedEntity(<< "6" >>, Some(TripUpdate(Some(tdA), Some(vd1), << >>)), None, None),
    FeedEntity(<< "A", "2", "7", "N", "#", "E", "L", "1" >>, None, None,
               Some(Alert(<< EntitySelector(None, None, None, Some(<< "A", "2", "7", "N" >>)) >>))),
    FeedEntity(<< "A", "2", "7", "S", "#", "E", "L", "1" >>, None, None,
               Some(Alert(<< EntitySelector(None, None, None, Some(<< "A", "2", "7", "S" >>)) >>))),
    FeedEntity(<< "p" >>, None, None, Some(Alert(<< selNoService >>))),
    FeedEntity(<< "7" >>, None, Some(VehiclePosition(Some(tdA), Some(vd1), None)), None) }

MaxExtFeed == 3

ExtContents == { Malformed } \cup { Bytes(m) : m \in Messages(ExtEntities, MaxExtFeed) }

InitExt == InitWith(ExtContents, { NoExtension, NyctTrips, NyctAlerts, NyctBusTrips })

SpecExt == InitExt /\ [][Next]_vars

\* ------------------------------------------------------------------ claims

\* ParseRealtime has returned a result: its Trips, Vehicles and Alerts.
Returned == pc = "done" /\ IsSome(returned.result)

Trips == Get(returned.result).Trips

Vehicles == Get(returned.result).Vehicles

Alerts == Get(returned.result).Alerts

\* What the pointers of the result point to.
VehicleOf(ptr) == vehiclesByID[ptr.key]

TripOf(ptr) == tripsById[ptr.key]

\* The entities of the message the second loop decodes: those it does not skip.
Kept == { k \in DOMAIN feedMessage.Entity : ~shouldSkip[k] }

\* The indices, in increasing order, of a set of indices.
RECURSIVE Ascending(_)
Ascending(ks) ==
  IF ks = {} THEN << >>
  ELSE Append(Ascending(ks \ { CHOOSE k \in ks : \A j \in ks : j <= k }),
              CHOOSE k \in ks : \A j \in ks : j <= k)

\* The trip IDs an entity names: the trip of its trip update when that has a
\* trip descriptor, else the trip of its vehicle position, else the trips its
\* alert names with a descriptor that identifies a trip.
EntityTripIDs(entity) ==
  IF IsSome(entity.TripUpdate)
  THEN { parseTripDescriptor(Get(td)) : td \in { Get(entity.TripUpdate).Trip } \ { None } }
  ELSE IF IsSome(entity.Vehicle)
  THEN { parseTripDescriptor(Get(td)) : td \in { Get(entity.Vehicle).Trip } \ { None } }
  ELSE IF IsSome(entity.Alert)
  THEN { Get(tripID) :
           tripID \in { t \in { parseOptionalTripDescriptor(Get(entity.Alert).InformedEntity[k].Trip) :
                                  k \in DOMAIN Get(entity.Alert).InformedEntity } :
                          tripIDUniquelyIdentifiesTrip(t) } }
  ELSE {}

\* A vehicle descriptor with a non-empty ID, label or license plate.
IsIdentified(vehicleDesc) ==
  /\ IsSome(vehicleDesc)
  /\ \/ GetString(Get(vehicleDesc).Id) # << >>
     \/ GetString(Get(vehicleDesc).Label) # << >>
     \/ GetString(Get(vehicleDesc).LicensePlate) # << >>

\* The vehicle descriptor an entity is decoded with, if it is decoded with
\* a vehicle: that of its trip update when that has a trip descriptor and a
\* vehicle descriptor, else that of its vehicle position.
EntityVehicleDescriptors(entity) ==
  IF IsSome(entity.TripUpdate)
  THEN IF IsSome(Get(entity.TripUpdate).Trip) /\ IsSome(Get(entity.TripUpdate).Vehicle)
       THEN { Get(entity.TripUpdate).Vehicle } ELSE {}
  ELSE IF IsSome(entity.Vehicle) THEN { Get(entity.Vehicle).Vehicle }
  ELSE {}

\* The non-empty vehicle IDs an entity names.
EntityVehicleIDs(entity) ==
  { [ ID |-> GetString(Get(vd).Id), Label |-> GetString(Get(vd).Label),
      LicensePlate |-> GetString(Get(vd).LicensePlate) ] :
      vd \in { d \in EntityVehicleDescriptors(entity) : IsIdentified(d) } }

\* C1: in every result, a Trip whose Vehicle is set has Vehicle.Trip set to a
\* trip with its TripID, and a Vehicle whose Trip is set has Trip.Vehicle set
\* to a vehicle with its VehicleID.
C1_LinksPointBack ==
  Returned =>
    /\ \A k \in DOMAIN Trips :
         IsSome(Trips[k].Vehicle) =>
           /\ IsSome(VehicleOf(Get(Trips[k].Vehicle)).Trip)
           /\ TripOf(Get(VehicleOf(Get(Trips[k].Vehicle)).Trip)).ID = Trips[k].ID
    /\ \A k \in DOMAIN Vehicles :
         IsSome(Vehicles[k].Trip) =>
           /\ IsSome(TripOf(Get(Vehicles[k].Trip)).Vehicle)
           /\ VehicleOf(Get(TripOf(Get(Vehicles[k].Trip)).Vehicle)).ID = Vehicles[k].ID

\* C1, its case: a result in which a Trip and a Vehicle are linked.
C1_Linked ==
  /\ Returned
  /\ \E k \in DOMAIN Trips : IsSome(Trips[k].Vehicle)
  /\ \E k \in DOMAIN Vehicles : IsSome(Vehicles[k].Trip)

\* C2: the result has exactly one Trip for each TripID decoded from the
\* entities that are not skipped and exactly one Vehicle for each non-empty
\* VehicleID; no two Trips and no two identified Vehicles have the same ID.
C2_OnePerIdentity ==
  Returned =>
    /\ { Trips[k].ID : k \in DOMAIN Trips }
         = UNION { EntityTripIDs(feedMessage.Entity[k]) : k \in Kept }
    /\ \A j, k \in DOMAIN Trips : Trips[j].ID = Trips[k].ID => j = k
    /\ { Get(Vehicles[k].ID) : k \in { j \in DOMAIN Vehicles : IsSome(Vehicles[j].ID) } }
         = UNION { EntityVehicleIDs(feedMessage.Entity[k]) : k \in Kept }
    /\ \A j, k \in DOMAIN Vehicles :
         IsSome(Vehicles[j].ID) /\ Vehicles[j].ID = Vehicles[k].ID => j = k

\* C2, its case: a message in which three entities name the same trip and two
\* name the same vehicle gives one Trip and one Vehicle.
C2_Repeated ==
  /\ Returned
  /\ Len(feedMessage.Entity) = 3
  /\ \A k \in DOMAIN feedMessage.Entity :
       EntityTripIDs(feedMessage.Entity[k]) = EntityTripIDs(feedMessage.Entity[1])
  /\ \E j, k \in DOMAIN feedMessage.Entity :
       /\ j # k
       /\ EntityVehicleIDs(feedMessage.Entity[j]) # {}
       /\ EntityVehicleIDs(feedMessage.Entity[j]) = EntityVehicleIDs(feedMessage.Entity[k])
  /\ Len(Trips) = 1

\* The content of a Trip and of a Vehicle: everything but the link.
TripContent(t) == [t EXCEPT !.Vehicle = None]

VehicleContent(v) == [v EXCEPT !.Trip = None]

\* The last of a set of indices.
Last(ks) == CHOOSE k \in ks : \A j \in ks : j <= k

\* The occurrences with IsEntityInMessage=true of a trip and of a vehicle
\* among the entities: the trip updates of the trip, the vehicle positions of
\* the vehicle.
TripOccurrences(entities, tripID) ==
  { k \in DOMAIN entities :
      IsSome(entities[k].TripUpdate) /\ EntityTripIDs(entities[k]) = { tripID } }

VehicleOccurrences(entities, vehicleID) ==
  { k \in DOMAIN entities :
      /\ IsNone(entities[k].TripUpdate)
      /\ IsSome(entities[k].Vehicle)
      /\ EntityVehicleIDs(entities[k]) = { vehicleID } }

\* C3: the content of a Trip (of a Vehicle) of the result is the content
\* decoded from the last trip update (vehicle position) of its identity among
\* the entities that are not skipped, whatever placeholders the message has
\* before or after it, and it is the empty content when there is none.
C3_LastOccurrenceWins ==
  Returned =>
    /\ \A n \in DOMAIN Trips :
         TripContent(Trips[n]) =
           IF TripOccurrences(feedMessage.Entity, Trips[n].ID) \cap Kept = {}
           THEN [ZeroTrip EXCEPT !.ID = Trips[n].ID]
           ELSE Get(parseTripUpdate(
                      Get(feedMessage.Entity[
                            Last(TripOccurrences(feedMessage.Entity, Trips[n].ID) \cap Kept)
                          ].TripUpdate),
                      opts.Extension).trip)
    /\ \A n \in DOMAIN Vehicles :
         IsSome(Vehicles[n].ID) =>
           VehicleContent(Vehicles[n]) =
             IF VehicleOccurrences(feedMessage.Entity, Get(Vehicles[n].ID)) \cap Kept = {}
             THEN [ZeroVehicle EXCEPT !.ID = Vehicles[n].ID]
             ELSE Get(parseVehicle(
                        Get(feedMessage.Entity[
                              Last(VehicleOccurrences(feedMessage.Entity, Get(Vehicles[n].ID))
                                     \cap Kept)
                            ].Vehicle)).vehicle)

\* C3, its case: two trip updates of one trip with different stop time updates,
\* then a placeholder of that trip, and the Trip has the stop time updates of
\* the second trip update.
C3_Replaced ==
  /\ Returned
  /\ Len(feedMessage.Entity) = 3
  /\ IsSome(feedMessage.Entity[1].TripUpdate)
  /\ IsSome(feedMessage.Entity[2].TripUpdate)
  /\ IsNone(feedMessage.Entity[3].TripUpdate)
  /\ EntityTripIDs(feedMessage.Entity[1]) # {}
  /\ EntityTripIDs(feedMessage.Entity[2]) = EntityTripIDs(feedMessage.Entity[1])
  /\ EntityTripIDs(feedMessage.Entity[3]) = EntityTripIDs(feedMessage.Entity[1])
  /\ Len(Get(feedMessage.Entity[1].TripUpdate).StopTimeUpdate) = 1
  /\ Len(Get(feedMessage.Entity[2].TripUpdate).StopTimeUpdate) = 1
  /\ Get(feedMessage.Entity[1].TripUpdate).StopTimeUpdate
       # Get(feedMessage.Entity[2].TripUpdate).StopTimeUpdate
  /\ Len(Trips) = 1
  /\ Len(Trips[1].StopTimeUpdates) = 1
  /\ Trips[1].StopTimeUpdates[1].StopID
       = Get(feedMessage.Entity[2].TripUpdate).StopTimeUpdate[1].StopId

\* The second loop run on the first n of a sequence of entities, with their
\* skip flags.
RECURSIVE MergeAll(_, _, _, _)
MergeAll(entities, skips, extension, n) ==
  IF n = 0 THEN EmptyMergeState
  ELSE MergeEntity(MergeAll(entities, skips, extension, n - 1), entities[n], skips[n],
                   extension, CHOOSE order \in DecodeOrders(entities[n]) : TRUE)

\* A sequence without the elements at some indices.
Without(seq, ks) ==
  [j \in 1..Cardinality(DOMAIN seq \ ks) |-> seq[Ascending(DOMAIN seq \ ks)[j]]]

\* The flags of a sequence of entities none of which is skipped.
NoSkips(entities) == [k \in DOMAIN entities |-> FALSE]

\* The elements of a sequence with the number of times each occurs.
BagOf(seq) == [x \in Range(seq) |-> Cardinality({ k \in DOMAIN seq : seq[k] = x })]

\* An alert, the order of its informed entities left out.
AlertView(alert) == [alert EXCEPT !.InformedEntities = BagOf(@)]

\* What ParseRealtime returns after the second loop ended in a state: the
\* Trips and the identified Vehicles by identity with their links, the
\* Vehicles without ID, and the Alerts in their order.
ResultOf(st) ==
  [ Trips |-> LinkTrips(st.tripsById, st.tripIDToVehicleID),
    Vehicles |-> LinkVehicles(st.vehiclesByID, st.vehicleIDToTripID),
    NoID |-> BagOf(st.vehiclesWithNoID),
    Alerts |-> [k \in DOMAIN st.Alerts |-> AlertView(st.Alerts[k])] ]

\* What ParseRealtime returned, in the same form.
ReturnedResult ==
  [ Trips |-> [tripID \in { Trips[k].ID : k \in DOMAIN Trips } |->
                 CHOOSE t \in Range(Trips) : t.ID = tripID],
    Vehicles |-> [vehicleID \in { Get(v.ID) : v \in { w \in Range(Vehicles) : IsSome(w.ID) } } |->
                    CHOOSE v \in Range(Vehicles) : v.ID = Some(vehicleID)],
    NoID |-> BagOf(SelectSeq(Vehicles, LAMBDA v : IsNone(v.ID))),
    Alerts |-> [k \in DOMAIN Alerts |-> AlertView(Alerts[k])] ]

\* Two sequences of entities in which the last trip update of every trip and
\* the last vehicle position of every vehicle is the same entity.
SameLastOccurrences(e1, e2) ==
  /\ \A tripID \in UNION { EntityTripIDs(e1[k]) : k \in DOMAIN e1 } :
       TripOccurrences(e1, tripID) # {} =>
         e1[Last(TripOccurrences(e1, tripID))] = e2[Last(TripOccurrences(e2, tripID))]
  /\ \A vehicleID \in UNION { EntityVehicleIDs(e1[k]) : k \in DOMAIN e1 } :
       VehicleOccurrences(e1, vehicleID) # {} =>
         e1[Last(VehicleOccurrences(e1, vehicleID))] = e2[Last(VehicleOccurrences(e2, vehicleID))]

\* The entities of the message in another feed order.
Reordered(order) == [k \in DOMAIN order |-> feedMessage.Entity[order[k]]]

\* What ParseRealtime returns for the entities of the message in another order.
ResultReordered(order) ==
  ResultOf(MergeAll(Reordered(order), NoSkips(order), opts.Extension, Len(order)))

\* C4: a message with the same entities in another feed order, in which the
\* last IsEntityInMessage=true occurrence of every identity is the same
\* entity, gives the same Trips and Vehicles, content and links.
C4_OrderIndependent ==
  Returned /\ Kept = DOMAIN feedMessage.Entity =>
    \A order \in Orders(DOMAIN feedMessage.Entity) :
      SameLastOccurrences(feedMessage.Entity, Reordered(order)) =>
        /\ ResultReordered(order).Trips = ReturnedResult.Trips
        /\ ResultReordered(order).Vehicles = ReturnedResult.Vehicles
        /\ ResultReordered(order).NoID = ReturnedResult.NoID

\* C5: ParseRealtime returns an error and no result, and only on an input
\* that does not decode, or a result and no error; never both.
C5_ResultOrError ==
  pc = "done" =>
    \/ IsSome(returned.err) /\ IsNone(returned.result) /\ ~content.ok
    \/ IsNone(returned.err) /\ IsSome(returned.result) /\ content.ok

\* C5, its case: a message with a trip update that has no trip descriptor and
\* an entity that is empty, and ParseRealtime returned.
C5_DefectiveEntities ==
  /\ pc = "done"
  /\ \E k \in DOMAIN content.message.Entity :
       /\ IsSome(content.message.Entity[k].TripUpdate)
       /\ IsNone(Get(content.message.Entity[k].TripUpdate).Trip)
  /\ \E k \in DOMAIN content.message.Entity :
       /\ IsNone(content.message.Entity[k].TripUpdate)
       /\ IsNone(content.message.Entity[k].Vehicle)
       /\ IsNone(content.message.Entity[k].Alert)

\* The trip updates of the message that have no trip descriptor.
WithoutTripDescriptor ==
  { k \in DOMAIN content.message.Entity :
      /\ IsSome(content.message.Entity[k].TripUpdate)
      /\ IsNone(Get(content.message.Entity[k].TripUpdate).Trip) }

\* C6: when the message has trip updates without trip descriptor,
\* ParseRealtime still returns, a result and no error, and the result is the
\* one of the message without these entities: they give no Trip, no Vehicle
\* and no link, and the other entities are processed as if they were absent.
C6_WithoutTripDescriptorDropped ==
  WithoutTripDescriptor # {} =>
    /\ pc # "panic"
    /\ pc = "done" =>
         /\ IsNone(returned.err)
         /\ IsSome(returned.result)
         /\ ReturnedResult =
              ResultOf(MergeAll(Without(feedMessage.Entity, WithoutTripDescriptor),
                                Without(shouldSkip, WithoutTripDescriptor),
                                opts.Extension,
                                Len(Without(shouldSkip, WithoutTripDescriptor))))

\* C6, its case: a trip update without trip descriptor that names a vehicle,
\* among other entities, and ParseRealtime returned a result with a Trip and
\* without that vehicle.
C6_Dropped ==
  /\ Returned
  /\ \E k \in WithoutTripDescriptor :
       /\ IsIdentified(Get(content.message.Entity[k].TripUpdate).Vehicle)
       /\ \A n \in DOMAIN Vehicles :
            Vehicles[n].ID # parseVehicleDescriptor(Get(content.message.Entity[k].TripUpdate).Vehicle)
  /\ Len(Trips) >= 1

\* The hook of the extension the first loop calls on an entity, if any.
HookOf(entity) ==
  IF IsSome(entity.TripUpdate) THEN << "UpdateTrip" >>
  ELSE IF IsSome(entity.Vehicle) THEN << "UpdateVehicle" >>
  ELSE IF IsSome(entity.Alert) THEN << "UpdateAlert" >>
  ELSE << >>

\* One call of its hook for each of the first n entities, in feed order.
RECURSIVE HooksInFeedOrder(_, _)
HooksInFeedOrder(entities, n) ==
  IF n = 0 THEN << >>
  ELSE HooksInFeedOrder(entities, n - 1)
         \o [j \in DOMAIN HookOf(entities[n]) |-> << HookOf(entities[n])[j], n >>]

\* The trip ID and the vehicle ID the extension rewrites a raw trip update or
\* vehicle position to.
RewrittenTripIDs(entity) ==
  IF IsSome(entity.TripUpdate)
  THEN EntityTripIDs([entity EXCEPT !.TripUpdate =
                        Some(UpdateTrip(opts.Extension, Get(entity.TripUpdate),
                                        GetNumber(content.message.Header.Timestamp)).trip)])
  ELSE IF IsSome(entity.Vehicle)
  THEN EntityTripIDs([entity EXCEPT !.Vehicle =
                        Some(UpdateVehicle(opts.Extension, Get(entity.Vehicle)))])
  ELSE {}

RewrittenVehicleIDs(entity) ==
  IF IsSome(entity.TripUpdate)
  THEN EntityVehicleIDs([entity EXCEPT !.TripUpdate =
                           Some(UpdateTrip(opts.Extension, Get(entity.TripUpdate),
                                           GetNumber(content.message.Header.Timestamp)).trip)])
  ELSE IF IsSome(entity.Vehicle)
  THEN EntityVehicleIDs([entity EXCEPT !.Vehicle =
                           Some(UpdateVehicle(opts.Extension, Get(entity.Vehicle)))])
  ELSE {}

\* The trips the alert of an entity names, if the entity is decoded as an alert.
AlertTripIDs(entity) ==
  IF IsNone(entity.TripUpdate) /\ IsNone(entity.Vehicle) THEN EntityTripIDs(entity) ELSE {}

\* C7: the hooks of the extension are called once for each trip update,
\* vehicle position and alert of the message, in feed order; while they are
\* called nothing is decoded or merged yet, and once the second loop runs all
\* of them have been called; the Trips and Vehicles of the result have the
\* identities the extension rewrote the entities to.
C7_HooksBeforeDecoding ==
  /\ pc = "extension" =>
       /\ hookCalls = HooksInFeedOrder(content.message.Entity, i - 1)
       /\ MergeState = EmptyMergeState
  /\ pc = "panic" => hookCalls = HooksInFeedOrder(content.message.Entity, i)
  /\ pc \in { "merge", "trips", "sort", "vehicles", "done" } =>
       hookCalls = HooksInFeedOrder(content.message.Entity, Len(content.message.Entity))
  /\ Returned =>
       /\ { Trips[n].ID : n \in DOMAIN Trips }
            = UNION { RewrittenTripIDs(content.message.Entity[k]) : k \in Kept }
                \cup UNION { AlertTripIDs(feedMessage.Entity[k]) : k \in Kept }
       /\ { Get(Vehicles[n].ID) : n \in { j \in DOMAIN Vehicles : IsSome(Vehicles[j].ID) } }
            = UNION { RewrittenVehicleIDs(content.message.Entity[k]) : k \in Kept }

\* C7, its case: the NYCT trips extension rewrote the trip descriptor and the
\* vehicle descriptor of a trip update and of a vehicle position, and the
\* result has the Trip and the Vehicle they were rewritten to.
C7_Rewritten ==
  /\ Returned
  /\ opts.Extension.name = "nycttrips"
  /\ Len(hookCalls) = 2
  /\ hookCalls[1][1] = "UpdateTrip"
  /\ hookCalls[2][1] = "UpdateVehicle"
  /\ EntityVehicleIDs(content.message.Entity[1]) = {}
  /\ EntityVehicleIDs(feedMessage.Entity[1]) # {}
  /\ EntityTripIDs(content.message.Entity[2]) # EntityTripIDs(feedMessage.Entity[2])
  /\ Len(Trips) = 1
  /\ Trips[1].ID.HasStartTime
  /\ Len(Vehicles) = 1
  /\ { Get(Vehicles[1].ID) } = EntityVehicleIDs(feedMessage.Entity[1])

\* C8: the result is the one of the message, as the extension left it,
\* without the entities the extension asked to skip: they give no Trip, no
\* Vehicle, no link, no Alert and no trip of an alert.
C8_SkippedContributeNothing ==
  Returned =>
    ReturnedResult =
      ResultOf(MergeAll(Without(feedMessage.Entity, DOMAIN feedMessage.Entity \ Kept),
                        NoSkips(Without(feedMessage.Entity, DOMAIN feedMessage.Entity \ Kept)),
                        opts.Extension, Cardinality(Kept)))

\* C8, its case: UpdateTrip asked to skip a trip update that names a trip and a
\* vehicle, another entity was not skipped, and the result has neither that
\* trip nor that vehicle.
C8_TripSkipped ==
  /\ Returned
  /\ Kept # {}
  /\ \E k \in DOMAIN feedMessage.Entity :
       /\ shouldSkip[k]
       /\ IsSome(feedMessage.Entity[k].TripUpdate)
       /\ EntityTripIDs(feedMessage.Entity[k]) # {}
       /\ \A n \in DOMAIN Trips : Trips[n].ID \notin EntityTripIDs(feedMessage.Entity[k])
  /\ Len(Trips) >= 1

\* The order of the start times and of the start dates of two trip IDs: an
\* unset one is before a set one.
StartTimeBefore(a, b) ==
  \/ ~a.HasStartTime /\ b.HasStartTime
  \/ a.HasStartTime /\ b.HasStartTime /\ a.StartTime < b.StartTime

StartTimeSame(a, b) ==
  a.HasStartTime = b.HasStartTime /\ (a.HasStartTime => a.StartTime = b.StartTime)

StartDateBefore(a, b) ==
  \/ ~a.HasStartDate /\ b.HasStartDate
  \/ a.HasStartDate /\ b.HasStartDate /\ a.StartDate < b.StartDate

StartDateSame(a, b) ==
  a.HasStartDate = b.HasStartDate /\ (a.HasStartDate => a.StartDate = b.StartDate)

\* The order of trip IDs: by ID, then route ID, then direction ID, then start
\* time, then start date, then schedule relationship.
TripIDBefore(a, b) ==
  \/ StrLess(a.ID, b.ID)
  \/ a.ID = b.ID /\ StrLess(a.RouteID, b.RouteID)
  \/ a.ID = b.ID /\ a.RouteID = b.RouteID /\ a.DirectionID < b.DirectionID
  \/ a.ID = b.ID /\ a.RouteID = b.RouteID /\ a.DirectionID = b.DirectionID
       /\ StartTimeBefore(a, b)
  \/ a.ID = b.ID /\ a.RouteID = b.RouteID /\ a.DirectionID = b.DirectionID
       /\ StartTimeSame(a, b) /\ StartDateBefore(a, b)
  \/ a.ID = b.ID /\ a.RouteID = b.RouteID /\ a.DirectionID = b.DirectionID
       /\ StartTimeSame(a, b) /\ StartDateSame(a, b)
       /\ a.ScheduleRelationship < b.ScheduleRelationship

\* C9: the Trips of a result are in strictly ascending order of their trip
\* IDs, and they are the same sequence whatever order the maps are visited in
\* and whatever sort.Slice does with it.
C9_TripsSorted ==
  Returned =>
    /\ \A k \in 1..(Len(Trips) - 1) : TripIDBefore(Trips[k].ID, Trips[k + 1].ID)
    /\ \A order \in Orders(DOMAIN tripsById) :
         Sorts([k \in DOMAIN order |-> tripsById[order[k]]]) = { Trips }

\* C9, its case: a result with three Trips of the same route and direction
\* and without ID: one without start time, then two in the order of their
\* start times.
C9_ThreeTrips ==
  /\ Returned
  /\ Len(Trips) = 3
  /\ \A k \in 1..3 : Trips[k].ID.ID = << >> /\ Trips[k].ID.DirectionID = DirectionID_True
  /\ ~Trips[1].ID.HasStartTime
  /\ Trips[2].ID.HasStartTime
  /\ Trips[2].ID.StartTime < Trips[3].ID.StartTime

\* The entities that are decoded with a vehicle whose descriptor is absent or
\* has an empty ID, label and license plate, in feed order.
Unidentified ==
  Ascending({ k \in Kept :
                \E vd \in EntityVehicleDescriptors(feedMessage.Entity[k]) : ~IsIdentified(vd) })

\* The Vehicles of the result that have no ID, in their order.
VehiclesWithNoID == SelectSeq(Vehicles, LAMBDA v : IsNone(v.ID))

\* C10: a vehicle descriptor whose ID, label and license plate are empty
\* decodes to no VehicleID; the result has one Vehicle without ID for each
\* occurrence of such a vehicle, with the content of that occurrence, and one
\* Vehicle for each non-empty VehicleID besides.
C10_UnidentifiedSeparate ==
  /\ \A k \in DOMAIN feedMessage.Entity :
       \A vd \in EntityVehicleDescriptors(feedMessage.Entity[k]) :
         ~IsIdentified(vd) => parseVehicleDescriptor(vd) = None
  /\ Returned =>
       /\ Len(VehiclesWithNoID) = Len(Unidentified)
       /\ \A j \in DOMAIN Unidentified :
            VehicleContent(VehiclesWithNoID[j]) =
              Get(DecodeEntity(feedMessage.Entity[Unidentified[j]], opts.Extension, << >>).vehicle)
       /\ Len(Vehicles) =
            Len(Unidentified)
              + Cardinality(UNION { EntityVehicleIDs(feedMessage.Entity[k]) : k \in Kept })

\* C10, its case: a trip update with an empty vehicle descriptor, a vehicle
\* position without vehicle descriptor and an entity with an identified
\* vehicle give three Vehicles, two of them without ID.
C10_TwoUnidentified ==
  /\ Returned
  /\ Len(Unidentified) = 2
  /\ IsSome(feedMessage.Entity[Unidentified[1]].TripUpdate)
  /\ IsSome(Get(feedMessage.Entity[Unidentified[1]].TripUpdate).Vehicle)
  /\ IsNone(feedMessage.Entity[Unidentified[2]].TripUpdate)
  /\ IsNone(Get(feedMessage.Entity[Unidentified[2]].Vehicle).Vehicle)
  /\ Len(Vehicles) = 3
  /\ Len(VehiclesWithNoID) = 2

\* The entities decoded to a Trip together with a Vehicle that has no
\* VehicleID, whose trip no other entity of the message names.
TripWithUnidentifiedVehicle ==
  { k \in Kept :
      /\ EntityTripIDs(feedMessage.Entity[k]) # {}
      /\ \E vd \in EntityVehicleDescriptors(feedMessage.Entity[k]) : ~IsIdentified(vd)
      /\ \A j \in DOMAIN feedMessage.Entity \ { k } :
           EntityTripIDs(feedMessage.Entity[j]) \cap EntityTripIDs(feedMessage.Entity[k]) = {} }

\* C11: when one entity gives a Trip together with a Vehicle without
\* VehicleID and no other entity names that trip, the Trip of the result with
\* that TripID has its Vehicle set.
C11_UnidentifiedVehicleLinked ==
  Returned =>
    \A k \in TripWithUnidentifiedVehicle :
      \E n \in DOMAIN Trips :
        /\ Trips[n].ID \in EntityTripIDs(feedMessage.Entity[k])
        /\ IsSome(Trips[n].Vehicle)

\* C11, its case: the message is one trip update with an empty vehicle
\* descriptor, and the result has its Trip and its Vehicle.
C11_OneUnidentified ==
  /\ Returned
  /\ Len(feedMessage.Entity) = 1
  /\ TripWithUnidentifiedVehicle = { 1 }
  /\ Len(Trips) = 1
  /\ Len(Vehicles) = 1

\* C11, what the code does: the Trip of such an entity is in the result with
\* no Vehicle, the vehicle being set on the decoded trip after it was copied
\* into tripsById.
C11_UnidentifiedVehicleNotLinked ==
  Returned =>
    \A k \in TripWithUnidentifiedVehicle :
      \A n \in DOMAIN Trips :
        Trips[n].ID \in EntityTripIDs(feedMessage.Entity[k]) => IsNone(Trips[n].Vehicle)

\* The entities decoded as a trip update: the non-skipped ones with a trip
\* update that has a trip descriptor.
TripUpdateEntities ==
  { k \in Kept :
      /\ IsSome(feedMessage.Entity[k].TripUpdate)
      /\ IsSome(Get(feedMessage.Entity[k].TripUpdate).Trip) }

\* The entities decoded as a vehicle position: the non-skipped ones with a
\* vehicle position and no trip update.
VehiclePositionEntities ==
  { k \in Kept :
      /\ IsNone(feedMessage.Entity[k].TripUpdate)
      /\ IsSome(feedMessage.Entity[k].Vehicle) }

\* C12: a Trip of the result has IsEntityInMessage exactly when a non-skipped
\* trip update with a trip descriptor decodes to its TripID; a Vehicle has
\* IsEntityInMessage exactly when it was decoded from a vehicle position, be
\* it a Vehicle with an ID or one without.
C12_IsEntityInMessage ==
  Returned =>
    /\ \A n \in DOMAIN Trips :
         Trips[n].IsEntityInMessage <=>
           \E k \in TripUpdateEntities : Trips[n].ID \in EntityTripIDs(feedMessage.Entity[k])
    /\ \A n \in DOMAIN Vehicles :
         IsSome(Vehicles[n].ID) =>
           (Vehicles[n].IsEntityInMessage <=>
              \E k \in VehiclePositionEntities :
                Get(Vehicles[n].ID) \in EntityVehicleIDs(feedMessage.Entity[k]))
    /\ Len(VehiclesWithNoID) = Len(Unidentified)
    /\ \A j \in DOMAIN Unidentified :
         VehiclesWithNoID[j].IsEntityInMessage <=> Unidentified[j] \in VehiclePositionEntities

\* C12, its case: a trip update, then a vehicle position of another vehicle
\* that names the trip of the trip update, then an alert that names a further
\* trip: the result has a Trip in the message and a Trip that is not, a
\* Vehicle in the message and a Vehicle that is not.
C12_InAndOut ==
  /\ Returned
  /\ Len(feedMessage.Entity) = 3
  /\ 1 \in TripUpdateEntities
  /\ 2 \in VehiclePositionEntities
  /\ EntityTripIDs(feedMessage.Entity[2]) = EntityTripIDs(feedMessage.Entity[1])
  /\ IsSome(feedMessage.Entity[3].Alert)
  /\ 3 \in Kept \ (TripUpdateEntities \cup VehiclePositionEntities)
  /\ Len(Trips) = 2
  /\ Len(Vehicles) = 2
  /\ \E m, n \in DOMAIN Trips : Trips[m].IsEntityInMessage /\ ~Trips[n].IsEntityInMessage
  /\ \E m, n \in DOMAIN Vehicles :
       Vehicles[m].IsEntityInMessage /\ ~Vehicles[n].IsEntityInMessage

\* The message is a trip update of a trip with a vehicle descriptor and a
\* vehicle position of that vehicle with the descriptor of that trip, tu and
\* vp being their places in the message.
IsTripAndVehicle(tu, vp) ==
  /\ DOMAIN feedMessage.Entity = { tu, vp }
  /\ tu # vp
  /\ tu \in TripUpdateEntities
  /\ vp \in VehiclePositionEntities
  /\ EntityVehicleIDs(feedMessage.Entity[tu]) # {}
  /\ EntityVehicleIDs(feedMessage.Entity[vp]) = EntityVehicleIDs(feedMessage.Entity[tu])
  /\ EntityTripIDs(feedMessage.Entity[vp]) = EntityTripIDs(feedMessage.Entity[tu])

C13_TripUpdateFirst ==
  /\ Returned
  /\ IsTripAndVehicle(1, 2)
  /\ Len(Trips) = 1
  /\ Len(Trips[1].StopTimeUpdates) = 1
  /\ IsSome(Vehicles[1].StopID)

tdRouteTrue == TripDescriptor(None, Some(<< "R" >>), Some(1), None, None)

tdRouteFalse == TripDescriptor(None, Some(<< "R" >>), Some(0), None, None)

tdRouteQ == TripDescriptor(None, Some(<< "Q" >>), Some(1), None, None)

\* Informed entities: with nothing but a direction; with an agency; with a
\* route type; with route R; with a stop; with trip descriptors that do not
\* identify a trip, alone and along with a stop; with trip descriptors that
\* identify a trip, by its ID and by route, direction, start time and date.
selDirection == EntitySelector(None, Some(0), None, None)

selAgency == [EntitySelector(None, None, None, None) EXCEPT !.AgencyId = Some(<< "A" >>)]

selRouteType == [EntitySelector(None, None, None, None) EXCEPT !.RouteType = Some(3)]

selRoute == EntitySelector(Some(<< "R" >>), None, None, None)

selStop == EntitySelector(None, None, None, Some(<< "s", "1" >>))

selTripRoute == EntitySelector(None, None, Some(tdRoute), None)

selTripRouteFalse == EntitySelector(None, None, Some(tdRouteFalse), None)

selTripRouteQ == EntitySelector(None, None, Some(tdRouteQ), None)

selStopTripRouteTrue == EntitySelector(None, None, Some(tdRouteTrue), Some(<< "s", "2" >>))

selTripB == EntitySelector(None, None, Some(tdB), None)

selTripR1 == EntitySelector(None, None, Some(tdR1), None)

Selectors ==
  { selDirection, selAgency, selRouteType, selRoute, selStop, selTripRoute,
    selTripRouteFalse, selTripRouteQ, selStopTripRouteTrue, selTripB, selTripR1 }

MaxInformed == 3

MaxAlone == 1

\* The alerts with at most a number of informed entities.
AlertsOf(most) ==
  { FeedEntity(<< "1" >>, None, None, Some(Alert(sels))) :
      sels \in UNION { [1..k -> Selectors] : k \in 0..most } }

\* The alerts with at most MaxInformed informed entities.
AlertEntities == AlertsOf(MaxInformed)

\* A trip update of trip b with a stop time update.
tuB == FeedEntity(<< "2" >>, Some(TripUpdate(Some(tdB), None, << stu1 >>)), None, None)

\* The entities of a message with one alert: after the trip update, and for
\* the alerts with at most MaxAlone informed entities also alone and before it.
AlertMessages ==
  { << tuB, a >> : a \in AlertEntities }
    \cup { << a >> : a \in AlertsOf(MaxAlone) }
    \cup { << a, tuB >> : a \in AlertsOf(MaxAlone) }

AlertContents == { Bytes(FeedMessage(Some(100), m)) : m \in AlertMessages }

InitAlerts == InitWith(AlertContents, { NoExtension })

SpecAlerts == InitAlerts /\ [][Next]_vars

\* The alerts of the message that are decoded, in feed order: the result has
\* one Alert for each, in this order.
AlertEntitiesKept ==
  Ascending({ k \in Kept :
                /\ IsNone(feedMessage.Entity[k].TripUpdate)
                /\ IsNone(feedMessage.Entity[k].Vehicle)
                /\ IsSome(feedMessage.Entity[k].Alert) })

\* The informed entities of the j-th decoded alert of the message.
SelectorsOf(j) == Get(feedMessage.Entity[AlertEntitiesKept[j]].Alert).InformedEntity

\* A TripID that uniquely identifies a trip: it has an ID, or a route, a
\* direction, a start date and a start time.
Identifies(tripID) ==
  \/ tripID.ID # << >>
  \/ /\ tripID.RouteID # << >>
     /\ tripID.DirectionID # DirectionID_Unspecified
     /\ tripID.HasStartDate
     /\ tripID.HasStartTime

\* An informed entity of the message has a trip descriptor that identifies a
\* trip; it informs something.
SelectorIdentifies(sel) == IsSome(sel.Trip) /\ Identifies(parseTripDescriptor(Get(sel.Trip)))

SelectorInforms(sel) ==
  \/ IsSome(sel.AgencyId)
  \/ IsSome(sel.RouteId)
  \/ parseRouteType_GTFSRealtime(sel.RouteType) # RouteType_Unknown
  \/ IsSome(sel.StopId)
  \/ SelectorIdentifies(sel)

\* The informed entities of the j-th alert that inform something, in feed order.
SelectorsKept(j) == SelectSeq(SelectorsOf(j), SelectorInforms)

\* The routes the informed entities of the j-th alert name directly, and the
\* routes they name in a trip descriptor that does not identify a trip.
RoutesDirect(j) ==
  { Get(SelectorsOf(j)[n].RouteId) :
      n \in { m \in DOMAIN SelectorsOf(j) : IsSome(SelectorsOf(j)[m].RouteId) } }

SelectorsForRoute(j, route) ==
  { n \in DOMAIN SelectorsOf(j) :
      /\ IsSome(SelectorsOf(j)[n].Trip)
      /\ ~SelectorIdentifies(SelectorsOf(j)[n])
      /\ GetString(Get(SelectorsOf(j)[n].Trip).RouteId) = route }

RoutesFromTrips(j) ==
  { GetString(Get(SelectorsOf(j)[n].Trip).RouteId) :
      n \in { m \in DOMAIN SelectorsOf(j) : IsSome(SelectorsOf(j)[m].Trip) } } \ { << >> }

RoutesSynthesized(j) ==
  { route \in RoutesFromTrips(j) : SelectorsForRoute(j, route) # {} /\ route \notin RoutesDirect(j) }

\* The informed entities of the j-th Alert of the result past those kept from
\* the message.
Synthesized(j) ==
  SubSeq(Alerts[j].InformedEntities, Len(SelectorsKept(j)) + 1, Len(Alerts[j].InformedEntities))

\* C14: the informed entities of an output alert are, in feed order, those of
\* the message that inform an agency, a route, a route type other than
\* Unknown, a stop or a trip descriptor that identifies a trip, followed only
\* by route-level entities that are not in the message; an informed entity
\* that informs none of these is absent.
C14_InformedEntitiesKept ==
  Returned =>
    /\ Len(Alerts) = Len(AlertEntitiesKept)
    /\ \A j \in DOMAIN Alerts :
         /\ Len(Alerts[j].InformedEntities) >= Len(SelectorsKept(j))
         /\ \A n \in DOMAIN SelectorsKept(j) :
              /\ Alerts[j].InformedEntities[n].AgencyID = SelectorsKept(j)[n].AgencyId
              /\ Alerts[j].InformedEntities[n].RouteID = SelectorsKept(j)[n].RouteId
              /\ Alerts[j].InformedEntities[n].RouteType
                   = parseRouteType_GTFSRealtime(SelectorsKept(j)[n].RouteType)
              /\ Alerts[j].InformedEntities[n].DirectionID
                   = parseDirectionID_GTFSRealtime(SelectorsKept(j)[n].DirectionId)
              /\ Alerts[j].InformedEntities[n].StopID = SelectorsKept(j)[n].StopId
         /\ \A n \in DOMAIN Synthesized(j) :
              /\ IsSome(Synthesized(j)[n].RouteID)
              /\ Get(Synthesized(j)[n].RouteID) \in RoutesSynthesized(j)

\* C14, its case: an alert whose first informed entity has only a direction,
\* whose second has a stop and whose third has an agency gives an Alert with
\* two informed entities, the stop and then the agency.
C14_UselessDropped ==
  /\ Returned
  /\ Len(Alerts) = 1
  /\ Len(SelectorsOf(1)) = 3
  /\ ~SelectorInforms(SelectorsOf(1)[1])
  /\ IsSome(SelectorsOf(1)[1].DirectionId)
  /\ IsSome(SelectorsOf(1)[2].StopId)
  /\ IsSome(SelectorsOf(1)[3].AgencyId)
  /\ Len(Alerts[1].InformedEntities) = 2
  /\ IsSome(Alerts[1].InformedEntities[1].StopID)
  /\ IsSome(Alerts[1].InformedEntities[2].AgencyID)

\* C15: every TripID on an informed entity of an output alert identifies a
\* trip; a kept informed entity has the TripID of its trip descriptor when
\* that identifies a trip, and no TripID when it does not.
C15_TripIDsIdentify ==
  Returned =>
    /\ Len(Alerts) = Len(AlertEntitiesKept)
    /\ \A j \in DOMAIN Alerts :
         /\ \A n \in DOMAIN Alerts[j].InformedEntities :
              IsSome(Alerts[j].InformedEntities[n].TripID) =>
                Identifies(Get(Alerts[j].InformedEntities[n].TripID))
         /\ Len(Alerts[j].InformedEntities) >= Len(SelectorsKept(j))
         /\ \A n \in DOMAIN SelectorsKept(j) :
              Alerts[j].InformedEntities[n].TripID =
                IF SelectorIdentifies(SelectorsKept(j)[n])
                THEN Some(parseTripDescriptor(Get(SelectorsKept(j)[n].Trip)))
                ELSE None

\* C15, its case: an alert with an informed entity that has a stop and a trip
\* descriptor that does not identify a trip, and one with a trip descriptor
\* that identifies a trip without an ID: the first is kept without TripID,
\* the second with its TripID.
C15_Cleared ==
  /\ Returned
  /\ Len(Alerts) = 1
  /\ Len(SelectorsOf(1)) = 2
  /\ IsSome(SelectorsOf(1)[1].StopId)
  /\ IsSome(SelectorsOf(1)[1].Trip)
  /\ ~SelectorIdentifies(SelectorsOf(1)[1])
  /\ SelectorIdentifies(SelectorsOf(1)[2])
  /\ IsNone(Get(SelectorsOf(1)[2].Trip).TripId)
  /\ Len(Alerts[1].InformedEntities) >= 2
  /\ IsNone(Alerts[1].InformedEntities[1].TripID)
  /\ IsSome(Alerts[1].InformedEntities[2].TripID)

\* The places among the synthesized informed entities of the j-th Alert of
\* those for a route.
SynthesizedFor(j, route) ==
  { n \in DOMAIN Synthesized(j) : Synthesized(j)[n].RouteID = Some(route) }

\* C16: an output alert has exactly one synthesized informed entity, with
\* route type Unknown and without TripID, for each route that a trip
\* descriptor of the alert that does not identify a trip names and that no
\* informed entity of the alert, before or after, names directly; it has none
\* for any other route.
C16_OneRouteEntity ==
  Returned =>
    /\ Len(Alerts) = Len(AlertEntitiesKept)
    /\ \A j \in DOMAIN Alerts :
         /\ Len(Alerts[j].InformedEntities) >= Len(SelectorsKept(j))
         /\ \A n \in DOMAIN Synthesized(j) :
              /\ IsSome(Synthesized(j)[n].RouteID)
              /\ Synthesized(j)[n].RouteType = RouteType_Unknown
              /\ IsNone(Synthesized(j)[n].TripID)
              /\ IsNone(Synthesized(j)[n].AgencyID)
              /\ IsNone(Synthesized(j)[n].StopID)
              /\ Get(Synthesized(j)[n].RouteID) \in RoutesFromTrips(j)
         /\ \A route \in RoutesFromTrips(j) :
              Cardinality(SynthesizedFor(j, route)) =
                IF route \in RoutesSynthesized(j) THEN 1 ELSE 0

\* C16, its case: an alert whose first informed entity names route R in a
\* trip descriptor that does not identify a trip, whose second names another
\* route that way and whose third names route R directly gives one
\* synthesized entity, for the other route.
C16_DirectLater ==
  /\ Returned
  /\ Len(Alerts) = 1
  /\ Len(SelectorsOf(1)) = 3
  /\ 1 \in SelectorsForRoute(1, << "R" >>)
  /\ 2 \in SelectorsForRoute(1, << "Q" >>)
  /\ SelectorsOf(1)[3].RouteId = Some(<< "R" >>)
  /\ Len(Synthesized(1)) = 1
  /\ Synthesized(1)[1].RouteID = Some(<< "Q" >>)

\* The directions of the trip descriptors of the j-th alert that name a route
\* without identifying a trip.
DirectionsFor(j, route) ==
  { parseDirectionID_GTFSRealtime(Get(SelectorsOf(j)[n].Trip).DirectionId) :
      n \in SelectorsForRoute(j, route) }

\* The direction the claim gives the synthesized entity of a route.
DirectionFor(j, route) ==
  IF \/ DirectionID_Unspecified \in DirectionsFor(j, route)
     \/ { DirectionID_True, DirectionID_False } \subseteq DirectionsFor(j, route)
  THEN DirectionID_Unspecified
  ELSE CHOOSE d \in DirectionsFor(j, route) : TRUE

\* The informed entities of the j-th alert with two neighbours exchanged:
\* every order of a list is reached by such exchanges.
Exchanged(j, m) ==
  [n \in DOMAIN SelectorsOf(j) |->
     IF n = m THEN SelectorsOf(j)[m + 1]
     ELSE IF n = m + 1 THEN SelectorsOf(j)[m]
     ELSE SelectorsOf(j)[n]]

\* The route-level entities the second loop of parseAlert appends for a list
\* of informed entities, the routes being visited in some order.
SynthesizedOf(entities, order) ==
  Range(alertRouteEntities(order, Len(order),
                           alertInformedRoutesFromTripIDs(entities, Len(entities)),
                           alertInformedRoutes(entities)))

\* C17: the synthesized entity of a route has no direction when a trip
\* descriptor that names the route without identifying a trip has none or
\* when these descriptors have both directions, and else the one direction
\* they have; the informed entities of the alert with two neighbours
\* exchanged give the same synthesized entities, and so does any other order.
C17_SynthesizedDirection ==
  Returned =>
    /\ Len(Alerts) = Len(AlertEntitiesKept)
    /\ \A j \in DOMAIN Alerts :
         /\ Len(Alerts[j].InformedEntities) >= Len(SelectorsKept(j))
         /\ \A n \in DOMAIN Synthesized(j) :
              /\ IsSome(Synthesized(j)[n].RouteID)
              /\ Get(Synthesized(j)[n].RouteID) \in RoutesSynthesized(j)
              /\ Synthesized(j)[n].DirectionID
                   = DirectionFor(j, Get(Synthesized(j)[n].RouteID))
         /\ \A order \in Orders({ r \in RoutesFromTrips(j) : SelectorsForRoute(j, r) # {} }) :
              /\ SynthesizedOf(SelectorsOf(j), order) = Range(Synthesized(j))
              /\ \A m \in 1..(Len(SelectorsOf(j)) - 1) :
                   SynthesizedOf(Exchanged(j, m), order) = Range(Synthesized(j))

\* C17, its case: an alert whose trip descriptors name route R in one
\* direction, then route R in the other, then route Q in one direction, none
\* identifying a trip: the synthesized entity of R has no direction, that of
\* Q has its direction.
C17_BothAndSingle ==
  /\ Returned
  /\ Len(Alerts) = 1
  /\ Len(SelectorsOf(1)) = 3
  /\ SelectorsForRoute(1, << "R" >>) = { 1, 2 }
  /\ DirectionsFor(1, << "R" >>) = { DirectionID_False, DirectionID_True }
  /\ DirectionsFor(1, << "Q" >>) = { DirectionID_True }
  /\ Len(Synthesized(1)) = 2
  /\ \E n \in DOMAIN Synthesized(1) :
       /\ Synthesized(1)[n].RouteID = Some(<< "R" >>)
       /\ Synthesized(1)[n].DirectionID = DirectionID_Unspecified
  /\ \E n \in DOMAIN Synthesized(1) :
       /\ Synthesized(1)[n].RouteID = Some(<< "Q" >>)
       /\ Synthesized(1)[n].DirectionID = DirectionID_True

\* The TripIDs of the trip descriptors of the j-th decoded alert that
\* identify a trip.
AlertIdentified(j) ==
  { parseTripDescriptor(Get(SelectorsOf(j)[n].Trip)) :
      n \in { m \in DOMAIN SelectorsOf(j) : SelectorIdentifies(SelectorsOf(j)[m]) } }

\* The TripIDs of the trip updates and of the vehicle positions that are decoded.
DecodedTripIDs(ks) == UNION { EntityTripIDs(feedMessage.Entity[k]) : k \in ks }

\* C18: for every decoded alert, each trip descriptor that identifies a trip
\* has a Trip with its TripID in the result, which is not in the message and
\* has no content unless a trip update of the message decodes to that TripID;
\* the trip descriptors that do not identify a trip add no Trip: every Trip is
\* that of an identifying descriptor, a trip update or a vehicle position.
C18_AlertTrips ==
  Returned =>
    /\ \A j \in DOMAIN AlertEntitiesKept :
         \A tripID \in AlertIdentified(j) :
           \E t \in DOMAIN Trips :
             /\ Trips[t].ID = tripID
             /\ Trips[t].IsEntityInMessage <=> tripID \in DecodedTripIDs(TripUpdateEntities)
             /\ tripID \notin DecodedTripIDs(TripUpdateEntities) =>
                  TripContent(Trips[t]) = [ZeroTrip EXCEPT !.ID = tripID]
    /\ \A t \in DOMAIN Trips :
         Trips[t].ID \in DecodedTripIDs(TripUpdateEntities \cup VehiclePositionEntities)
                           \cup UNION { AlertIdentified(j) : j \in DOMAIN AlertEntitiesKept }

\* C18, its case: a trip update of a trip, then an alert with three trip
\* descriptors: that trip, another trip identified without ID, and a route.
\* The result has two Trips: the trip of the trip update with its stop time
\* update, and the other trip, not in the message and without content.
C18_ImpliedTrips ==
  /\ Returned
  /\ Len(feedMessage.Entity) = 2
  /\ TripUpdateEntities = { 1 }
  /\ AlertEntitiesKept = << 2 >>
  /\ Len(SelectorsOf(1)) = 3
  /\ \A n \in 1..3 : IsSome(SelectorsOf(1)[n].Trip)
  /\ Cardinality(AlertIdentified(1)) = 2
  /\ DecodedTripIDs({ 1 }) \subseteq AlertIdentified(1)
  /\ Len(Trips) = 2
  /\ \E t \in DOMAIN Trips : Trips[t].IsEntityInMessage /\ Len(Trips[t].StopTimeUpdates) = 1
  /\ \E t \in DOMAIN Trips : ~Trips[t].IsEntityInMessage /\ Trips[t].ID.ID = << >>

\* ------------------------------------------------------------ hash inputs

\* The longest list of stop time updates of a hashed trip.
MaxStopTimeUpdates == 2

\* mkTime of the hash tests: hours after April 24, 2023, in seconds since 1970.
mkTime(n) == (Date(2023, 4, 24) - Date(1970, 1, 1)) * 86400 + n * 3600

\* mkDuration of the hash tests: hours, in seconds.
mkDuration(n) == n * 3600

\* mkTrip of the hash tests: every hashed field is set. The start date is the
\* midnight of a day, as parseStartDate makes it.
mkTrip(n) ==
  [ ID |-> [ ID |-> << "a" >>, RouteID |-> << "R" >>, DirectionID |-> DirectionID_True,
             HasStartTime |-> TRUE, StartTime |-> mkDuration(n + 2),
             HasStartDate |-> TRUE, StartDate |-> Date(2023, 4, 24) + n,
             ScheduleRelationship |-> 1 ],
    StopTimeUpdates |->
      << [ StopSequence |-> Some(n + 3),
           StopID |-> Some(<< "s" >>),
           Arrival |-> Some([ Time |-> Some(mkTime(n + 4)), Delay |-> Some(mkDuration(n + 5)),
                              Uncertainty |-> Some(n + 6) ]),
           Departure |-> Some([ Time |-> Some(mkTime(n + 7)), Delay |-> Some(mkDuration(n + 8)),
                                Uncertainty |-> Some(n + 9) ]),
           NyctTrack |-> Some(<< "t" >>),
           ScheduleRelationship |-> 1 ] >>,
    Vehicle |-> None,
    IsEntityInMessage |-> FALSE ]

mkPosition(n) ==
  [ Latitude |-> Some(n + 1), Longitude |-> Some(n + 2), Bearing |-> Some(n + 3),
    Odometer |-> Some(n + 4), Speed |-> Some(n + 5) ]

\* mkVehicle of the hash tests.
mkVehicle ==
  [ ID |-> Some([ID |-> << "v" >>, Label |-> << "l" >>, LicensePlate |-> << "p" >>]),
    Trip |-> Some(mkTrip(0)),
    Position |-> Some(mkPosition(9)),
    CurrentStopSequence |-> Some(15),
    StopID |-> Some(<< "s" >>),
    CurrentStatus |-> Some(2),
    Timestamp |-> Some(mkTime(16)),
    CongestionLevel |-> 0,
    OccupancyStatus |-> Some(5),
    OccupancyPercentage |-> Some(17),
    IsEntityInMessage |-> FALSE ]

\* The values tried for a field, by the type of the field: another value,
\* the zero value, a value of more than one byte, a negative value where the
\* type has one, and nil where the field is a pointer.
StringValues == { << >>, << "a" >>, << "b" >>, << "a", "b" >> }

Optional(values) == { None } \cup { Some(v) : v \in values }

Uint32Values == { 0, 1, 102, 256, 65536 }

Int32Values == { 0, 1, 101, 256, 0 - 1, 0 - 256 }

FloatValues == { 0, 1, 2, 3, 103, 65536 }

TimeValues == { 0, 1, mkTime(0), mkTime(108), 0 - 1, 0 - 3600 }

DateValues == { ZeroTime, Date(1969, 12, 31), Date(1970, 1, 1), Date(2023, 4, 24), Date(2023, 4, 28) }

DurationValues == { 0, 1, 5, mkDuration(105), 0 - 1, 0 - mkDuration(1) }

EnumValues == { 0, 1, 2, 3 }

StopTimeEventValues ==
  { [Time |-> None, Delay |-> None, Uncertainty |-> None],
    [Time |-> Some(mkTime(4)), Delay |-> Some(mkDuration(5)), Uncertainty |-> Some(6)] }

\* The lists of stop time updates: copies of the one of mkTrip, each with its
\* own stop sequence.
StopTimeUpdateValues ==
  { [k \in 1..n |-> [mkTrip(0).StopTimeUpdates[1] EXCEPT !.StopSequence = Some(k)]] :
      n \in 0..MaxStopTimeUpdates }

\* The fields that hasher.trip reads: those of the TripID, the list of stop
\* time updates, and the fields of the first stop time update.
TripIDFields ==
  { "ID.ID", "ID.RouteID", "ID.DirectionID", "ID.HasStartDate", "ID.StartDate",
    "ID.HasStartTime", "ID.StartTime", "ID.ScheduleRelationship" }

StopTimeUpdateFields ==
  { "StopSequence", "StopID", "NyctTrack", "ScheduleRelationship", "Arrival", "Departure" }

ArrivalFields == { "Arrival.Time", "Arrival.Delay", "Arrival.Uncertainty" }

DepartureFields == { "Departure.Time", "Departure.Delay", "Departure.Uncertainty" }

TripFields ==
  TripIDFields \cup { "StopTimeUpdates" } \cup StopTimeUpdateFields
    \cup ArrivalFields \cup DepartureFields

\* A field is there when what holds it is there.
HasTripField(t, F) ==
  CASE F \in TripIDFields \cup { "StopTimeUpdates" } -> TRUE
    [] F \in StopTimeUpdateFields -> Len(t.StopTimeUpdates) >= 1
    [] F \in ArrivalFields ->
         Len(t.StopTimeUpdates) >= 1 /\ IsSome(t.StopTimeUpdates[1].Arrival)
    [] F \in DepartureFields ->
         Len(t.StopTimeUpdates) >= 1 /\ IsSome(t.StopTimeUpdates[1].Departure)

TripField(t, F) ==
  CASE F = "ID.ID" -> t.ID.ID
    [] F = "ID.RouteID" -> t.ID.RouteID
    [] F = "ID.DirectionID" -> t.ID.DirectionID
    [] F = "ID.HasStartDate" -> t.ID.HasStartDate
    [] F = "ID.StartDate" -> t.ID.StartDate
    [] F = "ID.HasStartTime" -> t.ID.HasStartTime
    [] F = "ID.StartTime" -> t.ID.StartTime
    [] F = "ID.ScheduleRelationship" -> t.ID.ScheduleRelationship
    [] F = "StopTimeUpdates" -> t.StopTimeUpdates
    [] F = "StopSequence" -> t.StopTimeUpdates[1].StopSequence
    [] F = "StopID" -> t.StopTimeUpdates[1].StopID
    [] F = "NyctTrack" -> t.StopTimeUpdates[1].NyctTrack
    [] F = "ScheduleRelationship" -> t.StopTimeUpdates[1].ScheduleRelationship
    [] F = "Arrival" -> t.StopTimeUpdates[1].Arrival
    [] F = "Departure" -> t.StopTimeUpdates[1].Departure
    [] F = "Arrival.Time" -> Get(t.StopTimeUpdates[1].Arrival).Time
    [] F = "Arrival.Delay" -> Get(t.StopTimeUpdates[1].Arrival).Delay
    [] F = "Arrival.Uncertainty" -> Get(t.StopTimeUpdates[1].Arrival).Uncertainty
    [] F = "Departure.Time" -> Get(t.StopTimeUpdates[1].Departure).Time
    [] F = "Departure.Delay" -> Get(t.StopTimeUpdates[1].Departure).Delay
    [] F = "Departure.Uncertainty" -> Get(t.StopTimeUpdates[1].Departure).Uncertainty

WithTripField(t, F, v) ==
  CASE F = "ID.ID" -> [t EXCEPT !.ID.ID = v]
    [] F = "ID.RouteID" -> [t EXCEPT !.ID.RouteID = v]
    [] F = "ID.DirectionID" -> [t EXCEPT !.ID.DirectionID = v]
    [] F = "ID.HasStartDate" -> [t EXCEPT !.ID.HasStartDate = v]
    [] F = "ID.StartDate" -> [t EXCEPT !.ID.StartDate = v]
    [] F = "ID.HasStartTime" -> [t EXCEPT !.ID.HasStartTime = v]
    [] F = "ID.StartTime" -> [t EXCEPT !.ID.StartTime = v]
    [] F = "ID.ScheduleRelationship" -> [t EXCEPT !.ID.ScheduleRelationship = v]
    [] F = "StopTimeUpdates" -> [t EXCEPT !.StopTimeUpdates = v]
    [] F = "StopSequence" -> [t EXCEPT !.StopTimeUpdates[1].StopSequence = v]
    [] F = "StopID" -> [t EXCEPT !.StopTimeUpdates[1].StopID = v]
    [] F = "NyctTrack" -> [t EXCEPT !.StopTimeUpdates[1].NyctTrack = v]
    [] F = "ScheduleRelationship" -> [t EXCEPT !.StopTimeUpdates[1].ScheduleRelationship = v]
    [] F = "Arrival" -> [t EXCEPT !.StopTimeUpdates[1].Arrival = v]
    [] F = "Departure" -> [t EXCEPT !.StopTimeUpdates[1].Departure = v]
    [] F = "Arrival.Time" -> [t EXCEPT !.StopTimeUpdates[1].Arrival[1].Time = v]
    [] F = "Arrival.Delay" -> [t EXCEPT !.StopTimeUpdates[1].Arrival[1].Delay = v]
    [] F = "Arrival.Uncertainty" -> [t EXCEPT !.StopTimeUpdates[1].Arrival[1].Uncertainty = v]
    [] F = "Departure.Time" -> [t EXCEPT !.StopTimeUpdates[1].Departure[1].Time = v]
    [] F = "Departure.Delay" -> [t EXCEPT !.StopTimeUpdates[1].Departure[1].Delay = v]
    [] F = "Departure.Uncertainty" -> [t EXCEPT !.StopTimeUpdates[1].Departure[1].Uncertainty = v]

TripFieldValues(F) ==
  CASE F \in { "ID.ID", "ID.RouteID" } -> StringValues
    [] F = "ID.DirectionID" -> { DirectionID_Unspecified, DirectionID_True, DirectionID_False }
    [] F \in { "ID.HasStartDate", "ID.HasStartTime" } -> BOOLEAN
    [] F = "ID.StartDate" -> DateValues
    [] F = "ID.StartTime" -> DurationValues
    [] F \in { "ID.ScheduleRelationship", "ScheduleRelationship" } -> EnumValues
    [] F = "StopTimeUpdates" -> StopTimeUpdateValues
    [] F = "StopSequence" -> Optional(Uint32Values)
    [] F \in { "StopID", "NyctTrack" } -> Optional(StringValues)
    [] F \in { "Arrival", "Departure" } -> Optional(StopTimeEventValues)
    [] F \in { "Arrival.Time", "Departure.Time" } -> Optional(TimeValues)
    [] F \in { "Arrival.Delay", "Departure.Delay" } -> Optional(DurationValues)
    [] F \in { "Arrival.Uncertainty", "Departure.Uncertainty" } -> Optional(Int32Values)

\* The fields that hasher.vehicle reads, those of the linked trip aside.
VehicleIDFields == { "ID.ID", "ID.Label", "ID.LicensePlate" }

PositionFields ==
  { "Position.Latitude", "Position.Longitude", "Position.Bearing", "Position.Odometer",
    "Position.Speed" }

VehicleFields ==
  { "ID", "Position", "CurrentStopSequence", "StopID", "CurrentStatus", "Timestamp",
    "CongestionLevel", "OccupancyStatus", "OccupancyPercentage" }
    \cup VehicleIDFields \cup PositionFields

HasVehicleField(v, F) ==
  CASE F \in VehicleIDFields -> IsSome(v.ID)
    [] F \in PositionFields -> IsSome(v.Position)
    [] OTHER -> TRUE

VehicleField(v, F) ==
  CASE F = "ID" -> v.ID
    [] F = "ID.ID" -> Get(v.ID).ID
    [] F = "ID.Label" -> Get(v.ID).Label
    [] F = "ID.LicensePlate" -> Get(v.ID).LicensePlate
    [] F = "Position" -> v.Position
    [] F = "Position.Latitude" -> Get(v.Position).Latitude
    [] F = "Position.Longitude" -> Get(v.Position).Longitude
    [] F = "Position.Bearing" -> Get(v.Position).Bearing
    [] F = "Position.Odometer" -> Get(v.Position).Odometer
    [] F = "Position.Speed" -> Get(v.Position).Speed
    [] F = "CurrentStopSequence" -> v.CurrentStopSequence
    [] F = "StopID" -> v.StopID
    [] F = "CurrentStatus" -> v.CurrentStatus
    [] F = "Timestamp" -> v.Timestamp
    [] F = "CongestionLevel" -> v.CongestionLevel
    [] F = "OccupancyStatus" -> v.OccupancyStatus
    [] F = "OccupancyPercentage" -> v.OccupancyPercentage

WithVehicleField(v, F, a) ==
  CASE F = "ID" -> [v EXCEPT !.ID = a]
    [] F = "ID.ID" -> [v EXCEPT !.ID[1].ID = a]
    [] F = "ID.Label" -> [v EXCEPT !.ID[1].Label = a]
    [] F = "ID.LicensePlate" -> [v EXCEPT !.ID[1].LicensePlate = a]
    [] F = "Position" -> [v EXCEPT !.Position = a]
    [] F = "Position.Latitude" -> [v EXCEPT !.Position[1].Latitude = a]
    [] F = "Position.Longitude" -> [v EXCEPT !.Position[1].Longitude = a]
    [] F = "Position.Bearing" -> [v EXCEPT !.Position[1].Bearing = a]
    [] F = "Position.Odometer" -> [v EXCEPT !.Position[1].Odometer = a]
    [] F = "Position.Speed" -> [v EXCEPT !.Position[1].Speed = a]
    [] F = "CurrentStopSequence" -> [v EXCEPT !.CurrentStopSequence = a]
    [] F = "StopID" -> [v EXCEPT !.StopID = a]
    [] F = "CurrentStatus" -> [v EXCEPT !.CurrentStatus = a]
    [] F = "Timestamp" -> [v EXCEPT !.Timestamp = a]
    [] F = "CongestionLevel" -> [v EXCEPT !.CongestionLevel = a]
    [] F = "OccupancyStatus" -> [v EXCEPT !.OccupancyStatus = a]
    [] F = "OccupancyPercentage" -> [v EXCEPT !.OccupancyPercentage = a]

VehicleFieldValues(F) ==
  CASE F = "ID" -> Optional({ Get(mkVehicle.ID) })
    [] F \in VehicleIDFields -> StringValues
    [] F = "Position" -> Optional({ mkPosition(9), mkPosition(110) })
    [] F \in PositionFields -> Optional(FloatValues)
    [] F \in { "CurrentStopSequence", "OccupancyPercentage" } -> Optional(Uint32Values)
    [] F = "StopID" -> Optional(StringValues)
    [] F \in { "CurrentStatus", "OccupancyStatus" } -> Optional(EnumValues)
    [] F = "Timestamp" -> Optional(TimeValues)
    [] F = "CongestionLevel" -> EnumValues

\* The pairs of different values of a set.
Pairs(values) == { p \in values \X values : p[1] # p[2] }

\* The fields that Hash does not read.
TripVehicleValues == { None, Some(LocalVehiclePtr), Some(VehiclePtr(Get(mkVehicle.ID))) }

\* The entities the pairs are made from: those of the hash tests and those
\* with nothing set.
BaseTrips == { mkTrip(0), ZeroTrip }

BaseVehicles == { mkVehicle, ZeroVehicle }

HashCall(type, kind, field, first, second) ==
  [type |-> type, kind |-> kind, field |-> field, value |-> << first, second >>]

\* The pairs of trips hashed, as in TestHashTrip: two trips that differ in
\* one hashed field, and two trips that differ in a field that is not hashed.
TripCalls ==
  UNION { { HashCall("Trip", "hashed", b[2], WithTripField(b[1], b[2], p[1]),
                     WithTripField(b[1], b[2], p[2])) :
              p \in Pairs(TripFieldValues(b[2])) } :
          b \in { c \in BaseTrips \X TripFields : HasTripField(c[1], c[2]) } }
    \cup UNION { { HashCall("Trip", "unhashed", "Vehicle", [base EXCEPT !.Vehicle = p[1]],
                            [base EXCEPT !.Vehicle = p[2]]) :
                     p \in Pairs(TripVehicleValues) } : base \in BaseTrips }
    \cup { HashCall("Trip", "unhashed", "IsEntityInMessage", base,
                    [base EXCEPT !.IsEntityInMessage = TRUE]) : base \in BaseTrips }

\* The pairs of vehicles hashed, as in TestHashVehicle: two vehicles that
\* differ in one hashed field of their own, in whether they have a trip, in
\* one hashed field of their trip, or in a field that is not hashed.
VehicleCalls ==
  UNION { { HashCall("Vehicle", "hashed", b[2], WithVehicleField(b[1], b[2], p[1]),
                     WithVehicleField(b[1], b[2], p[2])) :
              p \in Pairs(VehicleFieldValues(b[2])) } :
          b \in { c \in BaseVehicles \X VehicleFields : HasVehicleField(c[1], c[2]) } }
    \cup { HashCall("Vehicle", "trip", "Trip", [mkVehicle EXCEPT !.Trip = p[1]],
                    [mkVehicle EXCEPT !.Trip = p[2]]) :
             p \in Pairs(Optional(BaseTrips)) }
    \cup UNION { { HashCall("Vehicle", "trip", F,
                            [mkVehicle EXCEPT !.Trip = Some(WithTripField(mkTrip(0), F, p[1]))],
                            [mkVehicle EXCEPT !.Trip = Some(WithTripField(mkTrip(0), F, p[2]))]) :
                     p \in Pairs(TripFieldValues(F)) } : F \in TripFields }
    \cup { HashCall("Vehicle", "unhashed", "Trip.Vehicle",
                    [mkVehicle EXCEPT !.Trip[1].Vehicle = p[1]],
                    [mkVehicle EXCEPT !.Trip[1].Vehicle = p[2]]) :
             p \in Pairs(TripVehicleValues) }
    \cup { HashCall("Vehicle", "unhashed", "IsEntityInMessage", base,
                    [base EXCEPT !.IsEntityInMessage = TRUE]) : base \in BaseVehicles }
    \cup { HashCall("Vehicle", "unhashed", "Trip.IsEntityInMessage", mkVehicle,
                    [mkVehicle EXCEPT !.Trip[1].IsEntityInMessage = TRUE]) }

\* The state before Hash is called on the two entities of a pair.
InitHash ==
  /\ receiver \in TripCalls \cup VehicleCalls
  /\ hasher = NewHasher
  /\ hashes = << >>
  /\ pc = "hash"
  /\ content = Malformed
  /\ opts = [Extension |-> NoExtension]
  /\ elevatorAlerts = EmptyMap
  /\ feedMessage = NoMessage
  /\ i = 1
  /\ shouldSkip = << >>
  /\ hookCalls = << >>
  /\ tripsById = EmptyMap
  /\ vehiclesByID = EmptyMap
  /\ tripIDToVehicleID = EmptyMap
  /\ vehicleIDToTripID = EmptyMap
  /\ vehiclesWithNoID = << >>
  /\ trip = None
  /\ vehicle = None
  /\ result = ZeroRealtime
  /\ returned = [result |-> None, err |-> None]
  /\ less = NoLess

SpecHash == InitHash /\ [][NextHash]_vars

\* Both Hash calls returned: what each wrote to its hash function.
Hashed == pc = "hashed"

\* C19: Hash was called on two trips, or on two vehicles, that are the same
\* but for one hashed field of their own, where they have two different
\* values or where one is nil and the other is set: the two calls wrote
\* different byte sequences to their hash functions.
C19_FieldChangesHash ==
  Hashed /\ receiver.kind = "hashed" =>
    /\ receiver.value[1] # receiver.value[2]
    /\ receiver.type = "Trip" =>
         /\ receiver.field \in TripFields
         /\ receiver.value[2] =
              WithTripField(receiver.value[1], receiver.field,
                            TripField(receiver.value[2], receiver.field))
    /\ receiver.type = "Vehicle" =>
         /\ receiver.field \in VehicleFields
         /\ receiver.value[2] =
              WithVehicleField(receiver.value[1], receiver.field,
                               VehicleField(receiver.value[2], receiver.field))
    /\ hashes[1] # hashes[2]

\* C19, its case: Hash was called on two trips that differ in the schedule
\* relationship of their TripID only, and have a stop time update with an
\* arrival and a departure.
C19_TripsHashed ==
  /\ Hashed
  /\ receiver.type = "Trip"
  /\ receiver.kind = "hashed"
  /\ receiver.field = "ID.ScheduleRelationship"
  /\ receiver.value[1].ID.ScheduleRelationship # receiver.value[2].ID.ScheduleRelationship
  /\ \A F \in TripFields : HasTripField(receiver.value[1], F)
  /\ Len(hashes) = 2

C20_InMessage ==
  /\ Hashed
  /\ receiver.type = "Vehicle"
  /\ receiver.kind = "unhashed"
  /\ receiver.value[1].IsEntityInMessage # receiver.value[2].IsEntityInMessage
  /\ IsSome(receiver.value[1].Trip)

tuBus(id, directionId, vehicleDesc) ==
  FeedEntity(id, Some(TripUpdate(Some(TripDescriptor(Some(<< "t", " ", "1" >>), None,
                                                     directionId, None, None)),
                                 vehicleDesc, << stu1 >>)),
             None, None)

\* The entities of the messages of SpecBus: trip updates without direction
\* and with the raw direction IDs 0, 1 and 2, without vehicle descriptor,
\* with one without ID and with one whose ID has spaces; a trip update
\* without trip descriptor; a vehicle position and an alert.
BusEntities ==
  { tuBus(<< "1" >>, d, v) :
      d \in { None, Some(0), Some(1), Some(2) },
      v \in { None, Some(VehicleDescriptor(None)),
              Some(VehicleDescriptor(Some(<< "v", " ", "2" >>))) } }
    \cup { FeedEntity(<< "5" >>, Some(TripUpdate(None, Some(vd2), << stu1 >>)), None, None),
           FeedEntity(<< "6" >>, None,
                      Some(VehiclePosition(Some(tdA), Some(vd1), Some(<< "s", "1" >>))), None),
           FeedEntity(<< "7" >>, None, None,
                      Some(Alert(<< EntitySelector(Some(<< "R" >>), None, None, None) >>))) }

MaxBusFeed == 2

BusContents == { Malformed } \cup { Bytes(m) : m \in Messages(BusEntities, MaxBusFeed) }

InitBus == InitWith(BusContents, { NyctBusTrips })

SpecBus == InitBus /\ [][Next]_vars

\* The trip updates of the message that have a trip descriptor.
WithTripDescriptor ==
  { k \in DOMAIN content.message.Entity :
      /\ IsSome(content.message.Entity[k].TripUpdate)
      /\ IsSome(Get(content.message.Entity[k].TripUpdate).Trip) }

\* <trip id>_<vehicle id>_<d> with the spaces replaced.
BusTripID(tripUpdate, d) ==
  ReplaceSpaces(GetString(Get(tripUpdate.Trip).TripId) \o << "_" >>
                  \o (IF IsSome(tripUpdate.Vehicle)
                      THEN GetString(Get(tripUpdate.Vehicle).Id) ELSE << >>)
                  \o << "_" >> \o Itoa(d))

\* The first loop is over and ParseRealtime did not panic.
Rewritten == pc \in { "merge", "trips", "sort", "vehicles", "done" }

\* C23: with the bus trips extension the trip ID of every trip update is
\* rewritten to <trip id>_<vehicle id>_<d>, spaces replaced, <d> being the
\* number of the decoded DirectionID (0 unspecified, 1 true, 2 false), and the
\* result has a Trip with this ID and this DirectionID.
C23_CompositeTripID ==
  /\ Rewritten /\ opts.Extension.name = "nyctbustrips" =>
       \A k \in WithTripDescriptor :
         Get(Get(feedMessage.Entity[k].TripUpdate).Trip).TripId
           = Some(BusTripID(Get(content.message.Entity[k].TripUpdate),
                            parseDirectionID_GTFSRealtime(
                              Get(Get(content.message.Entity[k].TripUpdate).Trip).DirectionId)))
  /\ Returned /\ opts.Extension.name = "nyctbustrips" =>
       \A k \in WithTripDescriptor :
         \E n \in DOMAIN Trips :
           /\ Trips[n].ID.DirectionID
                = parseDirectionID_GTFSRealtime(
                    Get(Get(content.message.Entity[k].TripUpdate).Trip).DirectionId)
           /\ Trips[n].ID.ID
                = BusTripID(Get(content.message.Entity[k].TripUpdate), Trips[n].ID.DirectionID)

\* What UpdateTrip does instead: <d> is the raw direction_id of the message, 0
\* when it is absent.
C23_RawDirection ==
  Returned /\ opts.Extension.name = "nyctbustrips" =>
    \A k \in WithTripDescriptor :
      \E n \in DOMAIN Trips :
        /\ Trips[n].ID.DirectionID
             = parseDirectionID_GTFSRealtime(
                 Get(Get(content.message.Entity[k].TripUpdate).Trip).DirectionId)
        /\ Trips[n].ID.ID
             = BusTripID(Get(content.message.Entity[k].TripUpdate),
                         GetNumber(Get(Get(content.message.Entity[k].TripUpdate).Trip).DirectionId))

\* The cases the test TestUpdatesTripId has: the raw direction ID is absent
\* or 1, where the raw number and the number of the DirectionID agree.
C23_TestedDirections ==
  (\A k \in WithTripDescriptor :
     Get(Get(content.message.Entity[k].TripUpdate).Trip).DirectionId \in { None, Some(1) })
    => C23_CompositeTripID

\* C30: with the bus trips extension ParseRealtime returns for every message
\* that decodes, a result and no error, whether or not a trip update lacks its
\* trip descriptor.
C30_ReturnsForEveryMessage ==
  opts.Extension.name = "nyctbustrips" /\ content.ok =>
    /\ pc # "panic"
    /\ pc = "done" => IsSome(returned.result) /\ IsNone(returned.err)

\* With the bus trips extension ParseRealtime panics in the first loop exactly
\* on the messages with a trip update without trip descriptor, and returns a
\* result for the others.
C30_PanicsWithoutTripDescriptor ==
  /\ pc = "panic" => opts.Extension.name = "nyctbustrips" /\ WithoutTripDescriptor # {}
  /\ opts.Extension.name = "nyctbustrips" /\ WithoutTripDescriptor # {} => pc # "done"

\* ---------------------------------------------------------- TripID.Less

MaxLessValue == 1

\* TripIDs: at most one of the ID, the route ID and the direction ID is set,
\* and the start time and the start date take their values whether or not
\* their flag is set.
TripIDValues ==
  { t \in [ ID : { << >>, << "a" >> },
            RouteID : { << >>, << "R" >> },
            DirectionID : { DirectionID_Unspecified, DirectionID_True },
            HasStartTime : BOOLEAN,
            StartTime : 0..MaxLessValue,
            HasStartDate : BOOLEAN,
            StartDate : ZeroTime..(ZeroTime + MaxLessValue),
            ScheduleRelationship : { 0, 1 } ] :
      \/ t.ID = << >> /\ t.RouteID = << >>
      \/ t.ID = << >> /\ t.DirectionID = DirectionID_Unspecified
      \/ t.RouteID = << >> /\ t.DirectionID = DirectionID_Unspecified }

\* t1.Less(t2) is about to be called on two TripIDs.
InitLess ==
  /\ less \in [t1 : { Some(t) : t \in TripIDValues }, t2 : { Some(t) : t \in TripIDValues },
               returned : { None }]
  /\ pc = "less"
  /\ receiver = NoReceiver
  /\ hasher = NewHasher
  /\ hashes = << >>
  /\ content = Malformed
  /\ opts = [Extension |-> NoExtension]
  /\ elevatorAlerts = EmptyMap
  /\ feedMessage = NoMessage
  /\ i = 1
  /\ shouldSkip = << >>
  /\ hookCalls = << >>
  /\ tripsById = EmptyMap
  /\ vehiclesByID = EmptyMap
  /\ tripIDToVehicleID = EmptyMap
  /\ vehicleIDToTripID = EmptyMap
  /\ vehiclesWithNoID = << >>
  /\ trip = None
  /\ vehicle = None
  /\ result = ZeroRealtime
  /\ returned = [result |-> None, err |-> None]

\* The call of TripID.Less.
TripID_Less ==
  /\ pc = "less"
  /\ less' = [less EXCEPT !.returned = Some(Less(Get(less.t1), Get(less.t2)))]
  /\ pc' = "lessReturned"
  /\ UNCHANGED << receiver, hasher, hashes, content, opts, elevatorAlerts, feedMessage, i,
                  shouldSkip, hookCalls, tripsById, vehiclesByID, tripIDToVehicleID,
                  vehicleIDToTripID, vehiclesWithNoID, trip, vehicle, result, returned >>

NextLess == TripID_Less

SpecLess == InitLess /\ [][NextLess]_vars

\* TripID.Less returned.
LessReturned == pc = "lessReturned"

\* A TripID as parseTripDescriptor makes it: the start time is zero when
\* HasStartTime is false, and the start date is the zero time when
\* HasStartDate is false.
IsParsed(t) ==
  /\ ~t.HasStartTime => t.StartTime = 0
  /\ ~t.HasStartDate => t.StartDate = ZeroTime

\* C27: TripID.Less is irreflexive and transitive, and of two TripIDs that
\* differ in a field exactly one is less than the other.
C27_StrictTotalOrder ==
  LessReturned =>
    /\ less.t1 = less.t2 => ~Get(less.returned)
    /\ \A t3 \in TripIDValues :
         Get(less.returned) /\ Less(Get(less.t2), t3) => Less(Get(less.t1), t3)
    /\ less.t1 # less.t2 => (Get(less.returned) <=> ~Less(Get(less.t2), Get(less.t1)))

\* C27, as it holds: TripID.Less is irreflexive, asymmetric and transitive on
\* all TripIDs; of two different TripIDs as parseTripDescriptor makes them
\* exactly one is less than the other; and two TripIDs neither of which is
\* less than the other differ at most in a start time whose flag is not set
\* or a start date whose flag is not set.
C27_StrictOrder ==
  LessReturned =>
    /\ less.t1 = less.t2 => ~Get(less.returned)
    /\ Get(less.returned) =>
         /\ ~Less(Get(less.t2), Get(less.t1))
         /\ \A t3 \in TripIDValues : Less(Get(less.t2), t3) => Less(Get(less.t1), t3)
    /\ IsParsed(Get(less.t1)) /\ IsParsed(Get(less.t2)) /\ less.t1 # less.t2 =>
         Get(less.returned) \/ Less(Get(less.t2), Get(less.t1))
    /\ ~Get(less.returned) /\ ~Less(Get(less.t2), Get(less.t1)) =>
         [Get(less.t1) EXCEPT
            !.StartTime = IF Get(less.t1).HasStartTime THEN @ ELSE Get(less.t2).StartTime,
            !.StartDate = IF Get(less.t1).HasStartDate THEN @ ELSE Get(less.t2).StartDate]
           = Get(less.t2)

\* C27, its case: the receiver has no start time, the argument has one and
\* is equal in every field before, and the receiver is less; both are as
\* parseTripDescriptor makes them.
C27_UnsetFirst ==
  /\ LessReturned
  /\ IsParsed(Get(less.t1)) /\ IsParsed(Get(less.t2))
  /\ ~Get(less.t1).HasStartTime /\ Get(less.t2).HasStartTime
  /\ Get(less.t1).ID = Get(less.t2).ID
  /\ Get(less.t1).RouteID = Get(less.t2).RouteID
  /\ Get(less.t1).DirectionID = Get(less.t2).DirectionID
  /\ Get(less.t1).ScheduleRelationship > Get(less.t2).ScheduleRelationship
  /\ Get(less.returned)

\* ------------------------------------------------- conflicting pairings

\* An unassigned NYCT trip whose only stop time update is in the past, with
\* the descriptor of vehicle v1: the NYCT trips extension skips it.
tuStale ==
  FeedEntity(<< "9" >>, Some(TripUpdate(Some(tdNyct(None, Some(FALSE))), Some(vd1), << stuPast >>)),
             None, None)

\* The entities of the messages of SpecPairs: trip updates and vehicle
\* positions that pair the trips a and b with the vehicles v1 and v2, a trip
\* update with a vehicle without ID, and the stale trip.
PairEntities ==
  { FeedEntity(<< "1" >>, Some(TripUpdate(Some(tdA), Some(vd1), << stu1 >>)), None, None),
    FeedEntity(<< "2" >>, Some(TripUpdate(Some(tdA), Some(vd2), << >>)), None, None),
    FeedEntity(<< "3" >>, Some(TripUpdate(Some(tdB), Some(vd1), << >>)), None, None),
    FeedEntity(<< "4" >>, None, Some(VehiclePosition(Some(tdB), Some(vd2), None)), None),
    FeedEntity(<< "5" >>, None, Some(VehiclePosition(Some(tdA), Some(vd1), None)), None),
    FeedEntity(<< "6" >>, Some(TripUpdate(Some(tdB), Some(vdEmpty), << >>)), None, None),
    tuStale }

MaxPairFeed == 3

PairContents == { Malformed } \cup { Bytes(m) : m \in Messages(PairEntities, MaxPairFeed) }

InitPairs == InitWith(PairContents, { NoExtension, NyctTrips })

SpecPairs == InitPairs /\ [][Next]_vars

\* The entities that are not skipped and pair a trip with an identified
\* vehicle: trip updates and vehicle positions with a trip descriptor and a
\* vehicle descriptor that has an ID, a label or a license plate.
Pairing ==
  { k \in Kept :
      /\ IsSome(feedMessage.Entity[k].TripUpdate) \/ IsSome(feedMessage.Entity[k].Vehicle)
      /\ EntityTripIDs(feedMessage.Entity[k]) # {}
      /\ EntityVehicleIDs(feedMessage.Entity[k]) # {} }

PairedTripID(k) == CHOOSE tripID \in EntityTripIDs(feedMessage.Entity[k]) : TRUE

PairedVehicleID(k) == CHOOSE vehicleID \in EntityVehicleIDs(feedMessage.Entity[k]) : TRUE

\* The last pairing entity, in feed order, of a trip and of a vehicle.
PairingsOfTrip(tripID) == { k \in Pairing : PairedTripID(k) = tripID }

PairingsOfVehicle(vehicleID) == { k \in Pairing : PairedVehicleID(k) = vehicleID }

C28_SkippedLast ==
  /\ Returned
  /\ Len(feedMessage.Entity) = 2
  /\ Pairing = { 1 }
  /\ shouldSkip[2]
  /\ IsSome(feedMessage.Entity[2].TripUpdate)
  /\ IsIdentified(Get(feedMessage.Entity[2].TripUpdate).Vehicle)
  /\ Len(Trips) = 1

\* --------------------------------------------------- stale unassigned trips

\* The stop time events of SpecStale: none, one without time, and the times
\* zero, before, at and after the time of the message, which is 100.
StaleEvents ==
  { None, Some(StopTimeEvent(None)) }
    \cup { Some(StopTimeEvent(Some(t))) : t \in { 0, 50, 100, 150 } }

MaxStaleStopTimes == 2

\* The lists of stop time updates of SpecStale: the first has any arrival and
\* any departure, the others are in the past.
StaleStopTimes ==
  { << >> } \cup
  { [k \in 1..n |-> IF k = 1 THEN StopTimeUpdate(Some(<< "s", "1" >>), a, d) ELSE stuPast] :
      n \in 1..MaxStaleStopTimes, a \in StaleEvents, d \in StaleEvents }

\* The trip descriptors of SpecStale: without NYCT trip descriptor, and with
\* one that is assigned, not assigned, and silent on it.
StaleDescriptors ==
  { tdA, tdNyct(Some(<< "t", "1" >>), Some(TRUE)), tdNyct(None, Some(FALSE)), tdNyct(None, None) }

\* The messages of SpecStale: one trip update, followed or not by a trip
\* update of trip b.
StaleContents ==
  { Bytes(FeedMessage(Some(100),
                      << FeedEntity(<< "1" >>, Some(TripUpdate(Some(td), None, stus)), None, None) >>
                        \o rest)) :
      td \in StaleDescriptors, stus \in StaleStopTimes,
      rest \in { << >>, << FeedEntity(<< "2" >>, Some(TripUpdate(Some(tdB), None, << stu1 >>)),
                                      None, None) >> } }

\* The NYCT trips extension without the filter of stale unassigned trips.
NyctTripsUnfiltered == Extension("nycttrips")

InitStale == InitWith(StaleContents, { NyctTrips, NyctTripsUnfiltered, NoExtension })

SpecStale == InitStale /\ [][Next]_vars

\* The filter of stale unassigned trips is on.
Filtering == opts.Extension.name = "nycttrips" /\ opts.Extension.FilterStaleUnassignedTrips

\* The trip update of entity k of the message as it was received.
ReceivedTripUpdate(k) == Get(content.message.Entity[k].TripUpdate)

\* A trip update with the NYCT trip descriptor that is not assigned.
IsUnassignedNyct(tripUpdate) ==
  /\ IsSome(tripUpdate.Trip)
  /\ IsSome(Get(tripUpdate.Trip).NyctTripDescriptor)
  /\ Get(Get(tripUpdate.Trip).NyctTripDescriptor).IsAssigned # Some(TRUE)

\* The time of a stop time event, if it has one.
EventTime(stopTimeEvent) == IF IsNone(stopTimeEvent) THEN None ELSE Get(stopTimeEvent).Time

\* The time of the first stop time update as the claim has it: the departure
\* time, or the arrival time when the departure time is absent.
FirstTime(tripUpdate) ==
  IF IsSome(EventTime(tripUpdate.StopTimeUpdate[1].Departure))
  THEN EventTime(tripUpdate.StopTimeUpdate[1].Departure)
  ELSE EventTime(tripUpdate.StopTimeUpdate[1].Arrival)

\* The same with a time of zero counted as absent.
FirstNonZeroTime(tripUpdate) ==
  IF EventTime(tripUpdate.StopTimeUpdate[1].Departure) \notin { None, Some(0) }
  THEN EventTime(tripUpdate.StopTimeUpdate[1].Departure)
  ELSE IF EventTime(tripUpdate.StopTimeUpdate[1].Arrival) = Some(0) THEN None
  ELSE EventTime(tripUpdate.StopTimeUpdate[1].Arrival)

\* Stale: no stop time updates, or a first time that is absent or earlier
\* than the time of the message.
IsStale(tripUpdate, firstTime) ==
  \/ Len(tripUpdate.StopTimeUpdate) = 0
  \/ IsNone(firstTime)
  \/ Get(firstTime) < GetNumber(content.message.Header.Timestamp)

\* C21: with the filter on, a trip update is skipped if and only if it has
\* the NYCT trip descriptor, is not assigned and has no stop time updates or
\* a first time (departure, or arrival when the departure time is absent)
\* that is absent or earlier than the time of the message.
C21_SkippedIffStale ==
  Rewritten /\ Filtering =>
    \A k \in DOMAIN shouldSkip :
      shouldSkip[k] <=>
        /\ IsUnassignedNyct(ReceivedTripUpdate(k))
        /\ IsStale(ReceivedTripUpdate(k),
                   IF Len(ReceivedTripUpdate(k).StopTimeUpdate) = 0 THEN None
                   ELSE FirstTime(ReceivedTripUpdate(k)))

\* C21, as it holds: the same with the departure time and the arrival time
\* counted as absent when they are zero; a skipped trip update gives no Trip,
\* every other gives one; without the filter nothing is skipped.
C21_SkippedIffStaleOrZero ==
  /\ Rewritten /\ Filtering =>
       \A k \in DOMAIN shouldSkip :
         shouldSkip[k] <=>
           /\ IsUnassignedNyct(ReceivedTripUpdate(k))
           /\ IsStale(ReceivedTripUpdate(k),
                      IF Len(ReceivedTripUpdate(k).StopTimeUpdate) = 0 THEN None
                      ELSE FirstNonZeroTime(ReceivedTripUpdate(k)))
  /\ Rewritten /\ ~Filtering => \A k \in DOMAIN shouldSkip : ~shouldSkip[k]
  /\ Returned =>
       { Trips[n].ID : n \in DOMAIN Trips }
         = UNION { EntityTripIDs(feedMessage.Entity[k]) : k \in Kept }

\* C21, its cases: with the filter on, an unassigned trip whose first stop
\* time update has no departure time and an arrival earlier than the message
\* is skipped and the trip update after it is not, and the result has the one
\* Trip.
C21_StaleByArrival ==
  /\ Returned /\ Filtering
  /\ Len(shouldSkip) = 2
  /\ shouldSkip[1] /\ ~shouldSkip[2]
  /\ IsUnassignedNyct(ReceivedTripUpdate(1))
  /\ Len(ReceivedTripUpdate(1).StopTimeUpdate) = 2
  /\ IsNone(EventTime(ReceivedTripUpdate(1).StopTimeUpdate[1].Departure))
  /\ EventTime(ReceivedTripUpdate(1).StopTimeUpdate[1].Arrival) = Some(50)
  /\ Len(Trips) = 1

\* --------------------------------------------- M train platforms in Bushwick

\* The stop IDs of SpecBushwick: the two platforms of each of the six
\* stations, a fourth character that is neither N nor S, other stations of
\* the line, a station without platform, a longer ID, and none.
BushwickStopIDs ==
  { Some(station \o << direction >>) : station \in buggyStationIDs, direction \in { "N", "S" } }
    \cup { Some(<< "M", "1", "1", "X" >>), Some(<< "M", "1", "9", "N" >>),
           Some(<< "M", "1", "9", "S" >>), Some(<< "M", "1", "5", "N" >>),
           Some(<< "J", "1", "1", "N" >>), Some(<< "M", "1", "1" >>),
           Some(<< "M", "1", "1", "N", "N" >>), None }

MaxBushwickStops == 2

\* The lists of stop time updates of SpecBushwick: any stop first, then
\* M18N and M19S in turn.
BushwickStopTimes ==
  { [k \in 1..n |-> StopTimeUpdate(IF k = 1 THEN stopID
                                    ELSE IF k % 2 = 0 THEN Some(<< "M", "1", "8", "N" >>)
                                    ELSE Some(<< "M", "1", "9", "S" >>), None, None)] :
      n \in 1..MaxBushwickStops, stopID \in BushwickStopIDs }

\* The messages of SpecBushwick: one trip update of trip a on route M, on
\* route J or without route.
BushwickContents ==
  { Bytes(FeedMessage(Some(100),
                      << FeedEntity(<< "1" >>,
                                    Some(TripUpdate(Some(TripDescriptor(Some(<< "a" >>), routeId,
                                                                        None, None, None)),
                                                    None, stus)),
                                    None, None) >>)) :
      routeId \in { Some(<< "M" >>), Some(<< "J" >>), None }, stus \in BushwickStopTimes }

\* The NYCT trips extension that leaves the platforms as they are.
NyctTripsPreserving ==
  [Extension("nycttrips") EXCEPT !.PreserveMTrainPlatformsInBushwick = TRUE]

InitBushwick ==
  InitWith(BushwickContents, { NyctTripsUnfiltered, NyctTripsPreserving, NoExtension })

SpecBushwick == InitBushwick /\ [][Next]_vars

\* The fix applies: the NYCT trips extension without the option to preserve,
\* and a trip update on route M.
Fixing ==
  /\ opts.Extension.name = "nycttrips"
  /\ ~opts.Extension.PreserveMTrainPlatformsInBushwick
  /\ Get(ReceivedTripUpdate(1).Trip).RouteId = Some(<< "M" >>)

\* A stop ID of length 4 whose first three characters are one of the six
\* stations.
IsBushwickPlatform(stopId) ==
  /\ IsSome(stopId)
  /\ Len(Get(stopId)) = 4
  /\ SubSeq(Get(stopId), 1, 3) \in buggyStationIDs

\* A stop ID with a final N replaced by S and a final S replaced by N.
Swapped(stopId) ==
  IF Get(stopId)[4] = "N" THEN Some(SubSeq(Get(stopId), 1, 3) \o << "S" >>)
  ELSE IF Get(stopId)[4] = "S" THEN Some(SubSeq(Get(stopId), 1, 3) \o << "N" >>)
  ELSE stopId

\* The stop IDs of the returned Trip, in order.
ReturnedStopIDs == [k \in DOMAIN Trips[1].StopTimeUpdates |-> Trips[1].StopTimeUpdates[k].StopID]

\* C24: where the fix applies, the platforms of the six stations have a
\* final N replaced by S and a final S replaced by N and every other stop ID
\* is unchanged; on other routes, with the option to preserve and without
\* the extension no stop ID is changed.
C24_SwapsNAndS ==
  Returned =>
    /\ Len(Trips) = 1
    /\ ReturnedStopIDs =
         [k \in DOMAIN ReceivedTripUpdate(1).StopTimeUpdate |->
            IF Fixing /\ IsBushwickPlatform(ReceivedTripUpdate(1).StopTimeUpdate[k].StopId)
            THEN Swapped(ReceivedTripUpdate(1).StopTimeUpdate[k].StopId)
            ELSE ReceivedTripUpdate(1).StopTimeUpdate[k].StopId]

\* C24, as it holds: the same, with a final character that is neither N nor
\* S replaced by N.
C24_SwapsOrSetsN ==
  Returned =>
    /\ Len(Trips) = 1
    /\ ReturnedStopIDs =
         [k \in DOMAIN ReceivedTripUpdate(1).StopTimeUpdate |->
            IF Fixing /\ IsBushwickPlatform(ReceivedTripUpdate(1).StopTimeUpdate[k].StopId)
            THEN IF Get(ReceivedTripUpdate(1).StopTimeUpdate[k].StopId)[4] \in { "N", "S" }
                 THEN Swapped(ReceivedTripUpdate(1).StopTimeUpdate[k].StopId)
                 ELSE Some(SubSeq(Get(ReceivedTripUpdate(1).StopTimeUpdate[k].StopId), 1, 3)
                             \o << "N" >>)
            ELSE ReceivedTripUpdate(1).StopTimeUpdate[k].StopId]

\* C24, its cases: the fix applied to M16S followed by M18N gives M16N and
\* M18S.
C24_Fixed ==
  /\ Returned /\ Fixing
  /\ Len(ReceivedTripUpdate(1).StopTimeUpdate) = 2
  /\ [k \in 1..2 |-> ReceivedTripUpdate(1).StopTimeUpdate[k].StopId]
       = << Some(<< "M", "1", "6", "S" >>), Some(<< "M", "1", "8", "N" >>) >>
  /\ ReturnedStopIDs = << Some(<< "M", "1", "6", "N" >>), Some(<< "M", "1", "8", "S" >>) >>

\* ----------------------------------------------------------- elevator alerts

\* An elevator alert as the feed has it: the ID names the platform and the
\* elevator, the alert informs the platform and a route and has a cause and
\* an effect of its own.
ElevatorEntity(station, direction, elevator) ==
  FeedEntity(station \o << direction, "#", "E", "L" >> \o elevator, None, None,
             Some([Alert(<< EntitySelector(None, None, None, Some(station \o << direction >>)),
                            EntitySelector(Some(<< "R" >>), None, None, None) >>)
                     EXCEPT !.Cause = Some("STRIKE"), !.Effect = Some("DETOUR")]))

\* The entities of SpecElevator: elevator 1 at both platforms of R25 and at a
\* platform of E01, elevator 2 at a platform of R25, an alert that is not an
\* elevator alert and a trip update.
ElevatorEntities ==
  { ElevatorEntity(<< "R", "2", "5" >>, "N", << "1" >>),
    ElevatorEntity(<< "R", "2", "5" >>, "S", << "1" >>),
    ElevatorEntity(<< "E", "0", "1" >>, "N", << "1" >>),
    ElevatorEntity(<< "R", "2", "5" >>, "N", << "2" >>),
    FeedEntity(<< "p" >>, None, None,
               Some(Alert(<< EntitySelector(None, None, None, Some(<< "s", "1" >>)) >>))),
    FeedEntity(<< "1" >>, Some(TripUpdate(Some(tdA), None, << stu1 >>)), None, None) }

MaxElevatorFeed == 3

ElevatorContents == { Bytes(m) : m \in Messages(ElevatorEntities, MaxElevatorFeed) }

\* The NYCT alerts extension under each deduplication policy, informing
\* platforms or stations.
ElevatorExtensions ==
  { [Extension("nyctalerts") EXCEPT !.elevatorAlertsDeduplicationPolicy = policy,
                                    !.elevatorAlertsInformUsingStationIDs = stations] :
      policy \in { "NoDeduplication", "DeduplicateInStation", "DeduplicateInComplex" },
      stations \in BOOLEAN }

InitElevator == InitWith(ElevatorContents, ElevatorExtensions)

SpecElevator == InitElevator /\ [][Next]_vars

\* The ID of entity k of the message as it was received.
ReceivedID(k) == Get(content.message.Entity[k].Id)

\* Entity k of the message as it was received is an alert.
IsReceivedAlert(k) == IsSome(content.message.Entity[k].Alert)

\* An entity ID of the form <station><N or S>#EL<elevator>.
IsElevatorID(id) ==
  /\ Len(id) >= 7
  /\ \A j \in 1..3 : IsAlnum(id[j])
  /\ id[4] \in { "N", "S" }
  /\ SubSeq(id, 5, 7) = << "#", "E", "L" >>

\* The combined ID of an elevator alert under the deduplication policy.
CombinedID(id) ==
  CASE opts.Extension.elevatorAlertsDeduplicationPolicy = "DeduplicateInStation" ->
         SubSeq(id, 1, 3) \o SubSeq(id, 5, Len(id))
    [] opts.Extension.elevatorAlertsDeduplicationPolicy = "DeduplicateInComplex" ->
         << "e", "l", "e", "v", "a", "t", "o", "r", ":" >> \o SubSeq(id, 6, Len(id))
    [] OTHER -> id

\* The stop ID of an elevator alert: the platform, or the station.
ElevatorStopID(id) ==
  IF opts.Extension.elevatorAlertsInformUsingStationIDs THEN SubSeq(id, 1, 3)
  ELSE SubSeq(id, 1, 4)

\* The ID the alert at position k is returned under.
OutputID(k) == IF IsElevatorID(ReceivedID(k)) THEN CombinedID(ReceivedID(k)) ELSE ReceivedID(k)

\* The positions of the alerts that are returned, in feed order: the alerts
\* that are not elevator alerts and the first elevator alert of every
\* combined ID.
OutputPositions ==
  Ascending({ k \in DOMAIN content.message.Entity :
                /\ IsReceivedAlert(k)
                /\ IsElevatorID(ReceivedID(k)) =>
                     \A j \in 1..(k - 1) : IsReceivedAlert(j) => OutputID(j) # OutputID(k) })

\* The positions of the elevator alerts combined into the one at position k.
CombinedInto(k) ==
  Ascending({ j \in DOMAIN content.message.Entity :
                IsReceivedAlert(j) /\ IsElevatorID(ReceivedID(j)) /\ OutputID(j) = OutputID(k) })

\* The distinct values of a sequence in order of first appearance.
Distinct(s) ==
  [q \in 1..Cardinality({ s[n] : n \in DOMAIN s }) |->
     s[Ascending({ n \in DOMAIN s : \A m \in 1..(n - 1) : s[m] # s[n] })[q]]]

\* The stop IDs of the alerts combined into the one at position k, distinct,
\* in order of first appearance.
CombinedStopIDs(k) ==
  Distinct([n \in DOMAIN CombinedInto(k) |-> ElevatorStopID(ReceivedID(CombinedInto(k)[n]))])

\* An informed entity that names a stop and nothing else.
InformedStop(stopID) ==
  [ AgencyID |-> None, RouteID |-> None, RouteType |-> RouteType_Unknown,
    DirectionID |-> DirectionID_Unspecified, TripID |-> None, StopID |-> Some(stopID) ]

\* C22: the elevator alerts of a message yield one Alert per combined ID, at
\* the feed position of the first alert with that combined ID, with cause
\* Maintenance, effect AccessibilityIssue and as informed entities the
\* distinct stop IDs of the alerts combined into it in order of first
\* appearance; the other alerts stay between them where they were.
C22_OneAlertPerCombinedID ==
  Returned =>
    /\ Len(Alerts) = Len(OutputPositions)
    /\ \A j \in DOMAIN Alerts :
         /\ Alerts[j].ID = OutputID(OutputPositions[j])
         /\ IsElevatorID(ReceivedID(OutputPositions[j])) =>
              /\ Alerts[j].Cause = "MAINTENANCE"
              /\ Alerts[j].Effect = "ACCESSIBILITY_ISSUE"
              /\ Alerts[j].InformedEntities
                   = [n \in DOMAIN CombinedStopIDs(OutputPositions[j]) |->
                        InformedStop(CombinedStopIDs(OutputPositions[j])[n])]

\* C22, its cases: under complex deduplication with platform IDs, elevator 1
\* at R25N, E01N and R25S gives one Alert that informs the three platforms in
\* this order.
C22_Complex ==
  /\ Returned
  /\ opts.Extension.elevatorAlertsDeduplicationPolicy = "DeduplicateInComplex"
  /\ ~opts.Extension.elevatorAlertsInformUsingStationIDs
  /\ Len(content.message.Entity) = 3
  /\ ReceivedID(1) = << "R", "2", "5", "N", "#", "E", "L", "1" >>
  /\ ReceivedID(2) = << "E", "0", "1", "N", "#", "E", "L", "1" >>
  /\ ReceivedID(3) = << "R", "2", "5", "S", "#", "E", "L", "1" >>
  /\ Len(Alerts) = 1
  /\ Alerts[1].ID = << "e", "l", "e", "v", "a", "t", "o", "r", ":", "E", "L", "1" >>
  /\ [n \in DOMAIN Alerts[1].InformedEntities |-> Alerts[1].InformedEntities[n].StopID]
       = << Some(<< "R", "2", "5", "N" >>), Some(<< "E", "0", "1", "N" >>),
            Some(<< "R", "2", "5", "S" >>) >>

\* C22, its cases: under station deduplication with station IDs, the alert
\* of elevator 1 at R25S after another alert and the alert at R25N gives one
\* Alert, after the other, that informs the station once.
C22_Station ==
  /\ Returned
  /\ opts.Extension.elevatorAlertsDeduplicationPolicy = "DeduplicateInStation"
  /\ opts.Extension.elevatorAlertsInformUsingStationIDs
  /\ Len(content.message.Entity) = 3
  /\ ReceivedID(1) = << "p" >>
  /\ ReceivedID(2) = << "R", "2", "5", "S", "#", "E", "L", "1" >>
  /\ ReceivedID(3) = << "R", "2", "5", "N", "#", "E", "L", "1" >>
  /\ Len(Alerts) = 2
  /\ Alerts[2].ID = << "R", "2", "5", "#", "E", "L", "1" >>
  /\ Len(Alerts[2].InformedEntities) = 1
  /\ Alerts[2].InformedEntities[1].StopID = Some(<< "R", "2", "5" >>)

\* ------------------------------------------- an extension instance used again

\* The entities of SpecReuse: elevator 1 at both platforms of R25 and an
\* alert that is not an elevator alert.
ReuseEntities ==
  { ElevatorEntity(<< "R", "2", "5" >>, "N", << "1" >>),
    ElevatorEntity(<< "R", "2", "5" >>, "S", << "1" >>),
    FeedEntity(<< "p" >>, None, None,
               Some(Alert(<< EntitySelector(None, None, None, Some(<< "s", "1" >>)) >>))) }

MaxReuseFeed == 2

ReuseContents == { Bytes(m) : m \in Messages(ReuseEntities, MaxReuseFeed) }

InitReuse == InitWith(ReuseContents, ElevatorExtensions)

\* ParseRealtime is called again with the options, and so the extension
\* instance, of the call that returned: the deduplication table the instance
\* was created with is still the one it has, and what it holds are alerts of
\* earlier messages.
ParseRealtimeAgain ==
  /\ pc = "done"
  /\ content' \in ReuseContents
  /\ elevatorAlerts' = [id \in DOMAIN elevatorAlerts |-> EarlierMessage]
  /\ pc' = "start"
  /\ feedMessage' = NoMessage
  /\ i' = 1
  /\ shouldSkip' = << >>
  /\ hookCalls' = << >>
  /\ tripsById' = EmptyMap
  /\ vehiclesByID' = EmptyMap
  /\ tripIDToVehicleID' = EmptyMap
  /\ vehicleIDToTripID' = EmptyMap
  /\ vehiclesWithNoID' = << >>
  /\ trip' = None
  /\ vehicle' = None
  /\ result' = ZeroRealtime
  /\ returned' = [result |-> None, err |-> None]
  /\ UNCHANGED << opts, receiver, less, hasher, hashes >>

NextReuse == Next \/ ParseRealtimeAgain

SpecReuse == InitReuse /\ [][NextReuse]_vars

\* The combined IDs that the extension instance has from earlier calls.
SeenBefore == { id \in DOMAIN elevatorAlerts : elevatorAlerts[id] = EarlierMessage }

\* The Alerts are those a freshly created instance with the same options
\* returns for the message: one per combined ID of the elevator alerts, as
\* in C22, and the other alerts.
AlertsOfFreshInstance ==
  /\ Len(Alerts) = Len(OutputPositions)
  /\ \A j \in DOMAIN Alerts :
       /\ Alerts[j].ID = OutputID(OutputPositions[j])
       /\ IsElevatorID(ReceivedID(OutputPositions[j])) =>
            /\ Alerts[j].Cause = "MAINTENANCE"
            /\ Alerts[j].Effect = "ACCESSIBILITY_ISSUE"
            /\ Alerts[j].InformedEntities
                 = [n \in DOMAIN CombinedStopIDs(OutputPositions[j]) |->
                      InformedStop(CombinedStopIDs(OutputPositions[j])[n])]

\* C29: whatever the extension instance was used for before, ParseRealtime
\* returns the Alerts a fresh instance returns; in particular every elevator
\* alert of the message is in the result under its combined ID.
C29_SameAsFreshInstance ==
  Returned =>
    /\ AlertsOfFreshInstance
    /\ \A k \in DOMAIN content.message.Entity :
         IsReceivedAlert(k) /\ IsElevatorID(ReceivedID(k)) =>
           \E j \in DOMAIN Alerts : Alerts[j].ID = OutputID(k)

\* C29, what holds: an instance that holds no alert of an earlier message
\* returns the Alerts of a fresh instance.
C29_FreshInstance ==
  Returned /\ SeenBefore = {} => AlertsOfFreshInstance

\* C29, what holds: an elevator alert whose combined ID the instance has
\* from an earlier call is skipped, and the result has no Alert with that ID.
C29_SkippedWhenSeenBefore ==
  Returned =>
    /\ \A k \in DOMAIN content.message.Entity :
         IsReceivedAlert(k) /\ IsElevatorID(ReceivedID(k)) /\ OutputID(k) \in SeenBefore =>
           shouldSkip[k]
    /\ \A j \in DOMAIN Alerts : Alerts[j].ID \notin SeenBefore

\* C29, the case: the instance has elevator 1 of R25N from an earlier call,
\* the message has this alert again, and the result has no Alert.
C29_SecondMessage ==
  /\ Returned
  /\ opts.Extension.elevatorAlertsDeduplicationPolicy = "NoDeduplication"
  /\ SeenBefore = { << "R", "2", "5", "N", "#", "E", "L", "1" >> }
  /\ Len(content.message.Entity) = 1
  /\ ReceivedID(1) = << "R", "2", "5", "N", "#", "E", "L", "1" >>
  /\ Len(Alerts) = 0

\* ------------------------------------------------- the encoding is injective

\* A stop time update with nothing set, and stop time updates that have one
\* string or one event set to a value that writes no bytes of its own: which
\* field it is shows only in the nil flags and the lengths.
InjectStopTimeUpdate ==
  [mkTrip(0).StopTimeUpdates[1] EXCEPT
     !.StopSequence = None, !.StopID = None, !.NyctTrack = None,
     !.ScheduleRelationship = 0, !.Arrival = None, !.Departure = None]

InjectStopTimeUpdates ==
  { [InjectStopTimeUpdate EXCEPT !.StopID = Some(<< >>)],
    [InjectStopTimeUpdate EXCEPT !.NyctTrack = Some(<< >>)],
    [InjectStopTimeUpdate EXCEPT
       !.Arrival = Some([Time |-> None, Delay |-> None, Uncertainty |-> None])],
    [InjectStopTimeUpdate EXCEPT
       !.Departure = Some([Time |-> None, Delay |-> None, Uncertainty |-> None])] }

MaxInjectStopTimes == 2

\* The trips of SpecInjective: the characters a and b divided between the ID
\* and the route, every list of stop time updates, and trips that differ in
\* what is not hashed.
InjectTrips ==
  { [ZeroTrip EXCEPT !.ID.ID = s[1], !.ID.RouteID = s[2]] :
      s \in { << << "a", "b" >>, << >> >>, << << "a" >>, << "b" >> >>,
              << << >>, << "a", "b" >> >>, << << "a" >>, << >> >> } }
    \cup { [ZeroTrip EXCEPT !.StopTimeUpdates = stus] :
             stus \in UNION { [1..n -> InjectStopTimeUpdates] : n \in 0..MaxInjectStopTimes } }
    \cup { [ZeroTrip EXCEPT !.Vehicle = Some(LocalVehiclePtr)],
           [ZeroTrip EXCEPT !.IsEntityInMessage = TRUE] }

\* The vehicles of SpecInjective: without ID and with the character a as ID
\* or as label, without trip and with a trip, without position and with an
\* empty one, without and with an empty stop ID, in the message or not.
InjectVehicles ==
  { [ZeroVehicle EXCEPT !.ID = id, !.Trip = t, !.Position = position, !.StopID = stopID,
                        !.IsEntityInMessage = inMessage] :
      id \in { None, Some([ZeroVehicleID EXCEPT !.ID = << "a" >>]),
               Some([ZeroVehicleID EXCEPT !.Label = << "a" >>]) },
      t \in { None, Some(ZeroTrip), Some([ZeroTrip EXCEPT !.IsEntityInMessage = TRUE]),
              Some([ZeroTrip EXCEPT !.StopTimeUpdates = << InjectStopTimeUpdate >>]) },
      position \in { None, Some([Latitude |-> None, Longitude |-> None, Bearing |-> None,
                                 Odometer |-> None, Speed |-> None]) },
      stopID \in { None, Some(<< >>) },
      inMessage \in BOOLEAN }

\* The state before Hash is called on two trips, or on two vehicles, that are
\* not the same.
InitInjective ==
  /\ receiver \in { HashCall("Trip", "any", "any", p[1], p[2]) : p \in Pairs(InjectTrips) }
                    \cup { HashCall("Vehicle", "any", "any", p[1], p[2]) :
                             p \in Pairs(InjectVehicles) }
  /\ hasher = NewHasher
  /\ hashes = << >>
  /\ pc = "hash"
  /\ content = Malformed
  /\ opts = [Extension |-> NoExtension]
  /\ elevatorAlerts = EmptyMap
  /\ feedMessage = NoMessage
  /\ i = 1
  /\ shouldSkip = << >>
  /\ hookCalls = << >>
  /\ tripsById = EmptyMap
  /\ vehiclesByID = EmptyMap
  /\ tripIDToVehicleID = EmptyMap
  /\ vehicleIDToTripID = EmptyMap
  /\ vehiclesWithNoID = << >>
  /\ trip = None
  /\ vehicle = None
  /\ result = ZeroRealtime
  /\ returned = [result |-> None, err |-> None]
  /\ less = NoLess

SpecInjective == InitInjective /\ [][NextHash]_vars

\* The hashed fields of a trip and of a vehicle: all but Vehicle and
\* IsEntityInMessage of the trip, and all but IsEntityInMessage of the
\* vehicle, with the hashed fields of its trip.
HashedFieldsOfTrip(t) == [t EXCEPT !.Vehicle = None, !.IsEntityInMessage = FALSE]

HashedFieldsOfVehicle(v) ==
  [v EXCEPT !.IsEntityInMessage = FALSE,
            !.Trip = IF IsNone(v.Trip) THEN None ELSE Some(HashedFieldsOfTrip(Get(v.Trip)))]

HashedFields(r) ==
  IF receiver.type = "Trip" THEN HashedFieldsOfTrip(r) ELSE HashedFieldsOfVehicle(r)

\* C25: two trips, or two vehicles, that differ in a hashed field, in however
\* many at once, never have the same byte sequence written to the hash
\* function.
C25_Injective ==
  Hashed /\ receiver.kind = "any" =>
    (HashedFields(receiver.value[1]) # HashedFields(receiver.value[2])
       => hashes[1] # hashes[2])

\* C25, the other direction: two entities with the same hashed fields have
\* the same byte sequence written.
C25_Function ==
  Hashed /\ receiver.kind = "any" =>
    (HashedFields(receiver.value[1]) = HashedFields(receiver.value[2])
       => hashes[1] = hashes[2])

\* C25, its cases: the ID ab without route and the ID a with route b, whose
\* characters follow each other in the same order; one stop time update with
\* an empty stop ID and one with an empty track.
C25_Strings ==
  /\ Hashed
  /\ receiver.type = "Trip"
  /\ receiver.value[1].ID.ID = << "a", "b" >> /\ receiver.value[1].ID.RouteID = << >>
  /\ receiver.value[2].ID.ID = << "a" >> /\ receiver.value[2].ID.RouteID = << "b" >>
  /\ hashes[1] # hashes[2]

C25_StopTimeUpdates ==
  /\ Hashed
  /\ receiver.type = "Trip"
  /\ Len(receiver.value[1].StopTimeUpdates) = 1
  /\ Len(receiver.value[2].StopTimeUpdates) = 1
  /\ receiver.value[1].StopTimeUpdates[1].StopID = Some(<< >>)
  /\ receiver.value[2].StopTimeUpdates[1].NyctTrack = Some(<< >>)
  /\ Len(hashes[1]) = Len(hashes[2])
  /\ hashes[1] # hashes[2]

\* ------------------------------------------------------------ Hash terminates

\* The state before the caller has chosen the two entities to hash.
InitCall ==
  /\ receiver = NoReceiver
  /\ hasher = NewHasher
  /\ hashes = << >>
  /\ pc = "call"
  /\ content = Malformed
  /\ opts = [Extension |-> NoExtension]
  /\ elevatorAlerts = EmptyMap
  /\ feedMessage = NoMessage
  /\ i = 1
  /\ shouldSkip = << >>
  /\ hookCalls = << >>
  /\ tripsById = EmptyMap
  /\ vehiclesByID = EmptyMap
  /\ tripIDToVehicleID = EmptyMap
  /\ vehicleIDToTripID = EmptyMap
  /\ vehiclesWithNoID = << >>
  /\ trip = None
  /\ vehicle = None
  /\ result = ZeroRealtime
  /\ returned = [result |-> None, err |-> None]
  /\ less = NoLess

\* The caller calls Hash on two trips or on two vehicles, among them trips
\* with a vehicle and vehicles whose trip refers back to them.
Hash_Call ==
  /\ pc = "call"
  /\ receiver' \in TripCalls \cup VehicleCalls
  /\ pc' = "hash"
  /\ UNCHANGED << hasher, hashes, i, less, content, opts, elevatorAlerts, feedMessage,
                  shouldSkip, hookCalls, tripsById, vehiclesByID, tripIDToVehicleID,
                  vehicleIDToTripID, vehiclesWithNoID, trip, vehicle, result, returned >>

NextCall == Hash_Call \/ NextHash

\* Hash runs on the goroutine that called it and nothing makes it wait: a
\* step that can be taken is taken.
SpecHashFair == InitCall /\ [][NextCall]_vars /\ WF_vars(NextCall)

\* C26: Trip.Hash and Vehicle.Hash return, on every entity, a trip and a
\* vehicle that refer to each other included.
C26_Terminates == <>Hashed

\* C26: after the trip of a vehicle, hasher.vehicle goes on with the position
\* and the flush; hasher.trip is entered once in a Hash call, and only from
\* the start of the call.
C26_TripOnce ==
  [][/\ pc' = "stopTimeUpdates" => pc \in { "hash", "stopTimeUpdates" }
     /\ pc' = "hash" => pc \in { "call", "flush" }
     /\ pc = "position" => pc' = "flush"]_vars

\* C26, its case: Hash returned on a vehicle whose trip refers back to it.
C26_MutualReference ==
  /\ Hashed
  /\ receiver.type = "Vehicle"
  /\ IsSome(receiver.value[2].ID)
  /\ IsSome(receiver.value[2].Trip)
  /\ Get(receiver.value[2].Trip).Vehicle = Some(VehiclePtr(Get(receiver.value[2].ID)))
  /\ Len(hashes) = 2

====
